---- MODULE Spec2Model ----
(***************************************************************************)
(* A model of papaya: dataclass records bound to the rows of a pandas      *)
(* DataFrame.  It covers the resolution of field type annotations          *)
(* (objects_backing_dataframe.py), the per-type codecs (papaya_types.py),  *)
(* the validation pipeline with its index handling                         *)
(* (objects_dataframe_base.py) and the row handles' accessors.             *)
(*                                                                         *)
(* Python values are records [ty, v, tz]: ty is the runtime type, v an     *)
(* integer payload, tz the time zone of a timestamp ("-" when the value    *)
(* has none).  The pandas and pandera behaviour the code relies on is      *)
(* modelled as of pandas 2.x, next to the call that uses it.               *)
(***************************************************************************)
EXTENDS Integers, Sequences, FiniteSets, TLC

VARIABLES
    fieldTypes,     \* the raw annotations of a record type being defined
    definition,     \* the outcome of dataframe_backed_object(cls)
    codec,          \* a record type with the one field whose codec is exercised
    cvalue,         \* the domain value handed to the codec
    cstage,         \* "start" | "validated" | "invalid" | "read" | "stored" | "refused"
                    \* | "decoded" | "revalidated" | "rejected"
    cenc,           \* outcome of process_setter_value
    ccell,          \* the one-row table holding the field's column
    cdec,           \* outcome of process_getter_value on the cell read back
    cls,            \* the record type a table is parameterised with
    df0,            \* the data as handed to the table constructor
    df,             \* the table (the ObjectsDataframeBase instance)
    phase,          \* "new" | "raised" | "live"
    validated,      \* number of validate() runs that returned normally (capped)
    mutated,        \* the table changed since validate() last returned normally
    writes,         \* number of assignments made through handles
    handles,        \* the keys of the outstanding row handles
    yielded,        \* the keys of the handles the last iteration yielded, in order
    user_ref,       \* the caller still holds its own reference to the table
    warnings,       \* the warnings the last validate() run issued
    last            \* the last operation and its outcome

vars == <<fieldTypes, definition, codec, cvalue, cstage, cenc, ccell, cdec,
          cls, df0, df, phase, validated, mutated, writes, handles, yielded, user_ref,
          warnings, last>>

annotVars == <<fieldTypes, definition>>
codecVars == <<codec, cvalue, cstage, cenc, ccell, cdec>>
tableVars == <<cls, df0, df, phase, validated, mutated, writes, handles, user_ref, last>>

-----------------------------------------------------------------------------
(* Python values *)

Val(t, n) == [ty |-> t, v |-> n, tz |-> "-"]
Stamp(t, n, z) == [ty |-> t, v |-> n, tz |-> z]

None == Val("NoneType", 0)
NaT == Val("NaTType", 0)
NA == Val("NAType", 0)
\* float("nan"): a float whose payload is no number
NaN == [ty |-> "float", v |-> 0, tz |-> "nan"]

\* class AnEnum(Enum): A = 1; B = 2; C = 3
EnumMemberIds == {1, 2, 3}
Member(i) == Val("AnEnum", i)
MemberName(m) == Val("str", 100 + m.v)
MemberValue(m) == Val("int", m.v)

-----------------------------------------------------------------------------
(* Type annotations *)

\* A type as written in an annotation: base names the class, lits holds the
\* arguments of a Literal[...], meta the metadata of an Annotated[...].
Ty(b) == [base |-> b, lits |-> {}, meta |-> <<>>]
Lit(s) == [base |-> "Literal", lits |-> s, meta |-> <<>>]
Annotated(t, m) == [t EXCEPT !.meta = @ \o m]
NoneTypeT == Ty("NoneType")

Plain(t) == [union |-> FALSE, args |-> <<t>>]
Union(ts) == [union |-> TRUE, args |-> ts]
Optional(t) == Union(<<t, NoneTypeT>>)

DateTimePayloads == {"DateTime(tz=None)", "DateTime(tz=Toronto)", "DateTime(tz=UTC)"}
PayloadTz(p) ==
    CASE p = "DateTime(tz=Toronto)" -> "Toronto"
      [] p = "DateTime(tz=UTC)" -> "UTC"
      [] OTHER -> "-"

get_exactly_one_ok(collection) == Len(collection) = 1

TypeErrorResult == [err |-> "TypeError", annotated_type |-> Ty("NoneType"),
                    annotated_with |-> "None", nullable |-> FALSE]

\* dataframe_backed_object._process_type_annotation
process_type_annotation(type_annotation) ==
    LET \* a union: drop NoneType, remember that it was there
        nonNone == SelectSeq(type_annotation.args, LAMBDA t : t.base # "NoneType")
        nullable1 == type_annotation.union /\ Len(nonNone) < Len(type_annotation.args)
    IN  IF ~get_exactly_one_ok(nonNone) THEN TypeErrorResult
        ELSE
        LET t1 == nonNone[1]
            \* isinstance(type_annotation, typing._LiteralGenericAlias): an
            \* Annotated[Literal[...], ...] is no such instance
            isLiteral == t1.base = "Literal" /\ t1.meta = <<>>
            \* nullable is assigned in both branches of the Literal block
            nullable2 == IF isLiteral THEN None \in t1.lits ELSE nullable1
            t2 == IF isLiteral THEN [t1 EXCEPT !.lits = @ \ {None}] ELSE t1
            annotated_with == IF t2.meta # <<>> THEN t2.meta[1] ELSE "None"
            t3 == [t2 EXCEPT !.meta = <<>>]
        IN  IF t3.base \in {"Timestamp", "datetime"}
               /\ annotated_with \notin DateTimePayloads
            THEN TypeErrorResult
            ELSE [err |-> "none", annotated_type |-> t3,
                  annotated_with |-> annotated_with, nullable |-> nullable2]

\* ObjectsDataframeBase._index_fields: DataframeIndex among the metadata of an
\* Annotated alias (a union is no Annotated alias)
is_index_annotation(type_annotation) ==
    /\ ~type_annotation.union
    /\ \E i \in 1..Len(type_annotation.args[1].meta) :
          type_annotation.args[1].meta[i] = "DataframeIndex"

-----------------------------------------------------------------------------
(* Codecs: papaya_types.py *)

\* PapayaConfig()
DefaultConfig ==
    [store_nullable_bools_as_objects |-> FALSE,
     store_dates_as_timestamps |-> FALSE,
     store_enum_members_as |-> "members",
     store_nullable_ints_as_floats |-> FALSE,
     set_index |-> "false"]

\* The codec instance find_papaya_type builds: the dataclass fields of
\* GeneralPapayaType.
PapayaType(field_name, resolved, config) ==
    [field_name |-> field_name,
     annotated_type |-> resolved.annotated_type,
     annotated_with |-> resolved.annotated_with,
     nullable |-> resolved.nullable,
     config |-> config]

\* find_papaya_type: the class of the codec, first match wins
\* a dispatch that always falls through to the general codec
FindPapayaTypeGeneral(annotated_type) == "General"

find_papaya_type(annotated_type) ==
    CASE annotated_type.base = "bool" -> "Boolean"
      [] annotated_type.base = "date" -> "Date"
      [] annotated_type.base = "AnEnum" -> "Enum"
      [] annotated_type.base = "int" -> "Integer"
      [] annotated_type.base = "Literal" -> "Literal"
      [] annotated_type.base \in {"Timedelta", "timedelta"} -> "Timedelta"
      [] annotated_type.base \in {"Timestamp", "datetime"} -> "Datetimey"
      [] annotated_type.base = "str" -> "String"
      [] OTHER -> "General"

\* type(self.annotated_type) is type: false for an enum class (metaclass
\* EnumType), a Literal alias and a parameterised generic such as list[int]
TypeIsType(annotated_type) ==
    annotated_type.base \notin {"AnEnum", "Literal", "list_int"}

Ok(value) == [err |-> "none", val |-> value]
Raise(e) == [err |-> e, val |-> None]

\* pd.isna(value) for a scalar
IsNa(value) == value \in {None, NaT, NA, NaN} \/ value.tz = "nan"
\* hasattr(value, "__len__")
HasLen(value) == value.ty \in {"str", "list_int", "Series"}

Numeric == {"bool", "int", "float", "np_bool", "np_int64", "np_float64"}
\* Python's ==, as set membership and Enum lookup use it: numbers compare by
\* value across their types, everything else only with its own kind
PyEq(a, b) ==
    \/ a = b
    \/ a.ty \in Numeric /\ b.ty \in Numeric /\ a.tz = "-" /\ b.tz = "-" /\ a.v = b.v
PyIn(value, collection) == \E x \in collection : PyEq(x, value)

EnumMembers == {Member(i) : i \in EnumMemberIds}
\* EnumPapayaType.enum_members / enum_names / enum_values
enum_members(annotated_type) == EnumMembers
enum_names(annotated_type) == {MemberName(m) : m \in EnumMembers}
enum_values(annotated_type) == {MemberValue(m) : m \in EnumMembers}
\* EnumPapayaType.enum_values_type: the one type the member values share,
\* else object
enum_values_type(annotated_type) ==
    LET types == {x.ty : x \in enum_values(annotated_type)}
    IN  IF Cardinality(types) = 1 THEN Ty(CHOOSE t \in types : TRUE) ELSE Ty("object")

\* LiteralPapayaType.literal_values: a Python set, so values equal under ==
\* are one element; the model's literal sets hold no two such values
literal_values(annotated_type) == annotated_type.lits
\* LiteralPapayaType.literal_values_type
literal_values_type(annotated_type) ==
    LET types == {x.ty : x \in literal_values(annotated_type)}
    IN  IF Cardinality(types) = 1 THEN Ty(CHOOSE t \in types : TRUE) ELSE Ty("object")

\* annotated_type(value): the constructor call of process_getter_value.
\* Floats of the model are whole numbers, so int(float) loses nothing.
Construct(base, value) ==
    CASE base = "int" /\ value.ty \in Numeric -> Ok(Val("int", value.v))
      [] base = "float" /\ value.ty \in Numeric -> Ok(Val("float", value.v))
      [] base = "bool" /\ value.ty \in Numeric ->
            Ok(Val("bool", IF value.v = 0 THEN 0 ELSE 1))
      [] base = "bool" -> Ok(Val("bool", 1))
      [] base = "str" -> Ok([ty |-> "str", v |-> value.v, tz |-> value.ty])
      [] base = "object" -> Raise("TypeError")
      [] base = "int" /\ value.ty = "str" -> Raise("ValueError")
      [] OTHER -> Raise("TypeError")

\* GeneralPapayaType.process_getter_value
GeneralGetter(pt, value) ==
    IF ~HasLen(value) /\ IsNa(value) THEN Ok(None)
    ELSE IF TypeIsType(pt.annotated_type) /\ value.ty # pt.annotated_type.base
         THEN Construct(pt.annotated_type.base, value)
         ELSE Ok(value)

\* GeneralPapayaType.process_setter_value
GeneralSetter(pt, value) ==
    IF TypeIsType(pt.annotated_type) /\ value.ty # pt.annotated_type.base
    THEN IF ~pt.nullable THEN Raise("TypeError")
         ELSE IF value # None THEN Raise("TypeError")
         ELSE Ok(value)
    ELSE Ok(value)

\* DatePapayaType.process_getter_value; value.date() exists on a Timestamp
\* and on a datetime only
DateGetter(pt, value) ==
    IF pt.config.store_dates_as_timestamps
    THEN IF value = NaT THEN Ok(None)
         ELSE IF value.ty \in {"Timestamp", "datetime"}
              THEN Ok(Val("date", value.v))
              ELSE Raise("AttributeError")
    ELSE Ok(value)

\* EnumPapayaType.process_getter_value: the value itself, AnEnum[name] or
\* AnEnum(value)
EnumGetter(pt, value) ==
    CASE pt.config.store_enum_members_as = "members" -> Ok(value)
      [] pt.config.store_enum_members_as = "names" ->
            IF value \in enum_names(pt.annotated_type)
            THEN Ok(CHOOSE m \in EnumMembers : MemberName(m) = value)
            ELSE Raise("KeyError")
      [] OTHER ->
            IF value \in EnumMembers THEN Ok(value)
            ELSE IF PyIn(value, enum_values(pt.annotated_type))
                 THEN Ok(CHOOSE m \in EnumMembers : PyEq(MemberValue(m), value))
                 ELSE Raise("ValueError")

\* process_setter_value without its membership test
EnumSetterNoMembership(pt, value) ==
    CASE pt.config.store_enum_members_as = "members" -> Ok(value)
      [] pt.config.store_enum_members_as = "names" ->
            IF value.ty = "AnEnum" THEN Ok(MemberName(value))
            ELSE Raise("AttributeError")
      [] OTHER ->
            IF value.ty = "AnEnum" THEN Ok(MemberValue(value))
            ELSE Raise("AttributeError")

\* EnumPapayaType.process_setter_value: the membership test, then the
\* member, its .name or its .value
EnumSetter(pt, value) ==
    IF value \notin enum_members(pt.annotated_type)
       /\ (~pt.nullable \/ value # None)
    THEN Raise("ValueError")
    ELSE CASE pt.config.store_enum_members_as = "members" -> Ok(value)
           [] pt.config.store_enum_members_as = "names" ->
                 IF value.ty = "AnEnum" THEN Ok(MemberName(value))
                 ELSE Raise("AttributeError")
           [] OTHER ->
                 IF value.ty = "AnEnum" THEN Ok(MemberValue(value))
                 ELSE Raise("AttributeError")

\* LiteralPapayaType.process_getter_value
LiteralGetter(pt, value) ==
    LET lvt == literal_values_type(pt.annotated_type)
    IN  IF ~HasLen(value) /\ IsNa(value) THEN Ok(None)
        ELSE IF TypeIsType(lvt) /\ value.ty # lvt.base /\ lvt.base # "object"
             THEN Construct(lvt.base, value)
             ELSE Ok(value)

\* LiteralPapayaType.process_setter_value
LiteralSetter(pt, value) ==
    IF ~PyIn(value, literal_values(pt.annotated_type))
       /\ (~pt.nullable \/ value # None)
    THEN Raise("ValueError")
    ELSE Ok(value)

\* TimedeltaPapayaType.process_getter_value; to_pytimedelta() exists on a
\* pandas Timedelta only
TimedeltaGetter(pt, value) ==
    IF value = NaT THEN Ok(None)
    ELSE IF pt.annotated_type.base = "Timedelta" THEN Ok(value)
    ELSE IF value.ty = "Timedelta" THEN Ok([value EXCEPT !.ty = "timedelta"])
    ELSE Raise("AttributeError")

\* DatetimeyPapayaType.process_getter_value; to_pydatetime() exists on a
\* pandas Timestamp only
DatetimeyGetter(pt, value) ==
    IF value = NaT THEN Ok(None)
    ELSE IF pt.annotated_type.base = "Timestamp" THEN Ok(value)
    ELSE IF value.ty = "Timestamp" THEN Ok([value EXCEPT !.ty = "datetime"])
    ELSE Raise("AttributeError")

\* <codec>.process_getter_value, by the class find_papaya_type returns
process_getter_value(pt, value) ==
    LET kind == find_papaya_type(pt.annotated_type)
    IN  CASE kind = "Date" -> DateGetter(pt, value)
          [] kind = "Enum" -> EnumGetter(pt, value)
          [] kind = "Literal" -> LiteralGetter(pt, value)
          [] kind = "Timedelta" -> TimedeltaGetter(pt, value)
          [] kind = "Datetimey" -> DatetimeyGetter(pt, value)
          [] OTHER -> GeneralGetter(pt, value)

\* <codec>.process_setter_value, by the class find_papaya_type returns
process_setter_value(pt, value) ==
    LET kind == find_papaya_type(pt.annotated_type)
    IN  CASE kind = "Enum" -> EnumSetter(pt, value)
          [] kind = "Literal" -> LiteralSetter(pt, value)
          [] OTHER -> GeneralSetter(pt, value)

-----------------------------------------------------------------------------
(* The pandas storage the code reads and writes (pandas 2.x) *)

\* A dtype: its kind and, for datetime64, its time zone ("-": naive)
DT(k) == [k |-> k, tz |-> "-"]
DTtz(z) == [k |-> "datetime64", tz |-> z]

NaValues == {None, NaT, NA, NaN}

\* What a column of the dtype holds after a scalar is written to it, or a
\* TypeError when the dtype cannot hold the scalar.
Coerce(dtype, value) ==
    CASE dtype.k = "object" -> Ok(value)
      [] dtype.k = "bool" ->
            IF value.ty \in {"bool", "np_bool"} THEN Ok(Val("np_bool", value.v))
            ELSE Raise("TypeError")
      [] dtype.k = "int64" ->
            IF value.ty \in {"int", "np_int64"} THEN Ok(Val("np_int64", value.v))
            ELSE Raise("TypeError")
      [] dtype.k = "float64" ->
            IF value \in NaValues THEN Ok(NaN)
            ELSE IF value.ty \in {"int", "float", "np_int64", "np_float64"}
                 THEN Ok(Val("np_float64", value.v))
                 ELSE Raise("TypeError")
      [] dtype.k = "Int64" ->
            IF value \in NaValues THEN Ok(NA)
            ELSE IF value.ty \in {"int", "float", "np_int64", "np_float64"}
                 THEN Ok(Val("np_int64", value.v))
                 ELSE Raise("TypeError")
      [] dtype.k = "boolean" ->
            IF value \in NaValues THEN Ok(NA)
            ELSE IF value.ty \in {"bool", "np_bool"} THEN Ok(Val("np_bool", value.v))
                 ELSE Raise("TypeError")
      [] dtype.k = "datetime64" ->
            IF value \in NaValues THEN Ok(NaT)
            ELSE IF value.ty \in {"Timestamp", "datetime"}
                    /\ (value.tz = "-") = (dtype.tz = "-")
                 THEN Ok(Stamp("Timestamp", value.v, dtype.tz))
                 ELSE Raise("TypeError")
      [] dtype.k = "timedelta64" ->
            IF value \in NaValues THEN Ok(NaT)
            ELSE IF value.ty \in {"Timedelta", "timedelta"}
                 THEN Ok(Val("Timedelta", value.v))
                 ELSE Raise("TypeError")
      [] OTHER -> Raise("TypeError")

\* The Python object a stored scalar becomes when its column is cast to object
ToObject(value) ==
    CASE value.ty = "np_bool" -> Val("bool", value.v)
      [] value.ty = "np_int64" -> Val("int", value.v)
      [] value.ty = "np_float64" -> Val("float", value.v)
      [] OTHER -> value

\* The dtype pandas infers for a column built from Python objects
InferDtype(values) ==
    LET present == {values[i] : i \in 1..Len(values)} \ {None}
        types == {x.ty : x \in present}
        zones == {x.tz : x \in present}
        hasNone == \E i \in 1..Len(values) : values[i] = None
    IN  CASE present = {} -> DT("object")
          [] types = {"bool"} /\ ~hasNone -> DT("bool")
          [] types = {"int"} /\ ~hasNone -> DT("int64")
          [] types \subseteq {"int", "float"} -> DT("float64")
          [] types \subseteq {"Timestamp", "datetime"} /\ Cardinality(zones) = 1 ->
                DTtz(CHOOSE z \in zones : TRUE)
          [] types \subseteq {"Timedelta", "timedelta"} -> DT("timedelta64")
          [] OTHER -> DT("object")

\* The column pandas builds from the values: its dtype and stored scalars
MakeColumn(values) ==
    LET Stored(dtype) ==
            [dtype |-> dtype,
             values |-> [i \in 1..Len(values) |-> Coerce(dtype, values[i]).val]]
    IN  Stored(InferDtype(values))

\* Series.astype / pd.to_datetime on one scalar: the converted scalar or the
\* exception raised
AsTypeScalar(target, value) ==
    CASE target.k = "object" -> Ok(ToObject(value))
      [] target.k = "str" -> IF value.ty = "str" THEN Ok(value)
                             ELSE Construct("str", value)
      [] target.k = "int64" ->
            IF value.ty \in {"int", "np_int64", "float", "np_float64", "bool", "np_bool"}
               /\ value.tz = "-"
            THEN Ok(Val("np_int64", value.v))
            ELSE IF value = None THEN Raise("TypeError")
            ELSE IF value.ty \in {"float", "str", "NAType"} THEN Raise("ValueError")
            ELSE Raise("TypeError")
      [] target.k = "float64" ->
            IF value \in NaValues THEN Ok(NaN)
            ELSE IF value.ty \in Numeric THEN Ok(Val("np_float64", value.v))
            ELSE IF value.ty = "str" THEN Raise("ValueError")
            ELSE Raise("TypeError")
      [] target.k = "Int64" ->
            IF value \in NaValues THEN Ok(NA)
            ELSE IF value.ty \in Numeric THEN Ok(Val("np_int64", value.v))
            ELSE IF value.ty = "str" THEN Raise("ValueError")
            ELSE Raise("TypeError")
      [] target.k = "boolean" ->
            IF value \in NaValues THEN Ok(NA)
            ELSE IF value.ty \in {"bool", "np_bool"} THEN Ok(Val("np_bool", value.v))
            ELSE IF value.ty \in Numeric /\ value.v \in {0, 1}
                 THEN Ok(Val("np_bool", value.v))
            ELSE IF value.ty = "str" THEN Raise("ValueError")
            ELSE Raise("TypeError")
      [] target.k = "bool" ->
            IF value.ty \in Numeric /\ value.tz = "-"
            THEN Ok(Val("np_bool", IF value.v = 0 THEN 0 ELSE 1))
            ELSE IF value = None THEN Ok(Val("np_bool", 0))
            ELSE IF value \in {NA, NaT} THEN Raise("TypeError")
            ELSE Ok(Val("np_bool", 1))
      [] target.k = "datetime64" ->
            IF value \in NaValues THEN Ok(NaT)
            ELSE IF value.ty \in {"Timestamp", "datetime"}
                 THEN Ok(Stamp("Timestamp", value.v, value.tz))
            ELSE IF value.ty = "date" THEN Ok(Stamp("Timestamp", value.v, "-"))
            ELSE IF value.ty = "str" THEN Raise("ValueError")
            ELSE Raise("TypeError")
      [] target.k = "timedelta64" ->
            IF value \in NaValues THEN Ok(NaT)
            ELSE IF value.ty \in {"Timedelta", "timedelta"}
                 THEN Ok(Val("Timedelta", value.v))
            ELSE Raise("TypeError")
      [] OTHER -> Raise("TypeError")

-----------------------------------------------------------------------------
(* The table: a pandas DataFrame *)

\* df.columns is a set of names, df.dtypes and each row of df.cells are
\* functions on it.  df.index is an Index or MultiIndex: level l of row i is
\* levels[l][codes[l][i]]; a flat Index has one level holding the row labels
\* in row order.
NoName == "None"

NRows(frame) == Len(frame.index.codes[1])
NLevels(frame) == Len(frame.index.names)
\* isinstance(df.index, pd.MultiIndex)
IsMultiIndex(frame) == NLevels(frame) > 1
\* index.get_level_values(l)
LevelValues(index, l) ==
    [i \in 1..Len(index.codes[l]) |-> index.levels[l][index.codes[l][i]]]
\* the label of row i: what iterrows() yields and .loc / .at take
RowKey(frame, i) ==
    [l \in 1..NLevels(frame) |-> frame.index.levels[l][frame.index.codes[l][i]]]
ColumnValues(frame, c) == [i \in 1..NRows(frame) |-> frame.cells[i][c]]

Range(seq) == {seq[i] : i \in 1..Len(seq)}
Identity(n) == [i \in 1..n |-> i]
PositionOf(seq, x) == CHOOSE i \in 1..Len(seq) : seq[i] = x

\* the distinct values in ascending order, as pandas factorizes a level
SortedUnique(values) ==
    LET S == Range(values)
    IN  CHOOSE s \in [1..Cardinality(S) -> S] :
            /\ \A i, j \in 1..Cardinality(S) : i < j => s[i] # s[j] /\ s[i].v <= s[j].v

\* pd.RangeIndex(n): labels 0..n-1, no name
RangeIndex(n) ==
    [names |-> <<NoName>>,
     levels |-> <<[i \in 1..n |-> Val("np_int64", i - 1)]>>,
     codes |-> <<Identity(n)>>,
     dtypes |-> <<DT("int64")>>]

\* pd.DataFrame(records): one column per field, inferred dtypes, RangeIndex
\* (records is a sequence of functions from the names to Python values)
DataFrameOf(names, records) ==
    LET col(c) == MakeColumn([i \in 1..Len(records) |-> records[i][c]])
    IN  [columns |-> names,
         dtypes |-> [c \in names |-> col(c).dtype],
         cells |-> [i \in 1..Len(records) |-> [c \in names |-> col(c).values[i]]],
         index |-> RangeIndex(Len(records))]

DropColumns(frame, names) ==
    [frame EXCEPT !.columns = @ \ names,
                  !.dtypes = [c \in frame.columns \ names |-> frame.dtypes[c]],
                  !.cells = [i \in 1..NRows(frame) |->
                                [c \in frame.columns \ names |-> frame.cells[i][c]]]]

\* the index DataFrame.set_index(keys) builds from columns
IndexFromColumns(frame, keys) ==
    IF Len(keys) = 1
    THEN [names |-> keys,
          levels |-> <<ColumnValues(frame, keys[1])>>,
          codes |-> <<Identity(NRows(frame))>>,
          dtypes |-> <<frame.dtypes[keys[1]]>>]
    ELSE LET lev(l) == SortedUnique(ColumnValues(frame, keys[l]))
         IN  [names |-> keys,
              levels |-> [l \in 1..Len(keys) |-> lev(l)],
              codes |-> [l \in 1..Len(keys) |->
                            [i \in 1..NRows(frame) |->
                                PositionOf(lev(l), frame.cells[i][keys[l]])]],
              dtypes |-> [l \in 1..Len(keys) |-> frame.dtypes[keys[l]]]]

\* DataFrame.set_index(keys, inplace=True), with drop=True and append=False:
\* KeyError when a key is no column
set_index(frame, keys) ==
    IF ~(Range(keys) \subseteq frame.columns)
    THEN [err |-> "KeyError", df |-> frame]
    ELSE [err |-> "none",
          df |-> [DropColumns(frame, Range(keys)) EXCEPT
                     !.index = IndexFromColumns(frame, keys)]]

\* DataFrame.set_index(keys, append=True): the old levels stay in front
set_index_append(frame, keys) ==
    LET new == IndexFromColumns(frame, keys)
        old == frame.index
    IN  [DropColumns(frame, Range(keys)) EXCEPT
            !.index = [names |-> old.names \o new.names,
                       levels |-> old.levels \o new.levels,
                       codes |-> old.codes \o new.codes,
                       dtypes |-> old.dtypes \o new.dtypes]]

\* The first exception among per-scalar outcomes, "none" when there is none
FirstError(outcomes) ==
    LET failed == {i \in 1..Len(outcomes) : outcomes[i].err # "none"}
    IN  IF failed = {} THEN "none"
        ELSE outcomes[CHOOSE i \in failed : \A j \in failed : i <= j].err

\* The dtype of the array astype(target) / pd.to_datetime returns
ResultDtype(target, converted) ==
    CASE target.k = "str" -> DT("object")
      [] target.k = "datetime64" ->
            LET zones == {x.tz : x \in Range(converted) \ {NaT}}
            IN  IF zones = {} THEN target ELSE DTtz(CHOOSE z \in zones : TRUE)
      [] OTHER -> target

\* array.astype(target) over a sequence of stored scalars
AsType(target, values) ==
    LET Cast(outcomes, converted) ==
            IF FirstError(outcomes) # "none"
            THEN [err |-> FirstError(outcomes), values |-> values, dtype |-> target]
            ELSE IF target.k = "datetime64"
                    /\ Cardinality({x.tz : x \in Range(converted) \ {NaT}}) > 1
            THEN [err |-> "ValueError", values |-> values, dtype |-> target]
            ELSE [err |-> "none", values |-> converted,
                  dtype |-> ResultDtype(target, converted)]
        Converted(outcomes) ==
            Cast(outcomes, [i \in 1..Len(values) |-> outcomes[i].val])
    IN  Converted([i \in 1..Len(values) |-> AsTypeScalar(target, values[i])])

\* df[c] = values: replaces the column
SetColumn(frame, c, values, dtype) ==
    [frame EXCEPT !.dtypes = [@ EXCEPT ![c] = dtype],
                  !.cells = [i \in 1..NRows(frame) |->
                                [frame.cells[i] EXCEPT ![c] = values[i]]]]

-----------------------------------------------------------------------------
(* Schema derivation and column repair: the validator / prevalidate_column   *)
(* methods of papaya_types.py.  A run of validate() threads a record        *)
(* [df, err, warn] through its steps: the table as mutated so far, the      *)
(* exception raised ("none" while there is none) and the warnings emitted.  *)

\* the dtype astype(<Python type>) casts to
PyTypeDtype(base) ==
    CASE base = "int" -> DT("int64")
      [] base = "float" -> DT("float64")
      [] base = "bool" -> DT("bool")
      [] base = "str" -> DT("str")
      [] base = "object" -> DT("object")
      [] OTHER -> DT("not understood")

\* df[c] = df[c].astype(target)
ColumnAsType(st, c, target) ==
    LET Assign(r) ==
            IF r.err # "none" THEN [st EXCEPT !.err = r.err]
            ELSE [st EXCEPT !.df = SetColumn(st.df, c, r.values, r.dtype)]
    IN  IF c \notin st.df.columns THEN [st EXCEPT !.err = "KeyError"]
        ELSE Assign(AsType(target, ColumnValues(st.df, c)))

\* x.name / x.value of a member, anything else as it is
EnumNameOf(x) == IF x \in EnumMembers THEN MemberName(x) ELSE x
EnumValueOf(x) == IF x \in EnumMembers THEN MemberValue(x) ELSE x

\* df[c] = df[c].apply(lambda x: x.<attribute> if x in members else x): the
\* results form a new column of inferred dtype
ColumnApply(st, c, attribute) ==
    LET f(x) == IF attribute = "name" THEN EnumNameOf(x) ELSE EnumValueOf(x)
        Assign(col) == [st EXCEPT !.df = SetColumn(st.df, c, col.values, col.dtype)]
        Applied(old) == Assign(MakeColumn([i \in 1..Len(old) |-> f(ToObject(old[i]))]))
    IN  IF c \notin st.df.columns THEN [st EXCEPT !.err = "KeyError"]
        ELSE Applied(ColumnValues(st.df, c))

Swallow(st, before, caught) == IF st.err \in caught THEN before ELSE st
Warn(st, w) == IF st.err = "none" THEN [st EXCEPT !.warn = @ \cup {w}] ELSE st

\* BooleanPapayaType.prevalidate_column
BooleanPrevalidate(pt, st) ==
    IF ~pt.nullable THEN st
    ELSE IF pt.config.store_nullable_bools_as_objects
         THEN ColumnAsType(st, pt.field_name, DT("object"))
         ELSE Warn(ColumnAsType(st, pt.field_name, DT("boolean")), "BooleanDtype")

\* DatePapayaType.prevalidate_column
DatePrevalidate(pt, st) ==
    IF pt.config.store_dates_as_timestamps
    THEN ColumnAsType(st, pt.field_name, DTtz("-"))
    ELSE st

\* EnumPapayaType.prevalidate_column
EnumPrevalidate(pt, st) ==
    LET \* .apply(...).astype(str) is one assignment
        Names(applied, cast) ==
            IF applied.err # "none" THEN applied
            ELSE IF cast.err # "none" THEN [st EXCEPT !.err = cast.err]
            ELSE cast
        NamesCast(applied) == Names(applied, ColumnAsType(applied, pt.field_name, DT("str")))
        \* enum_values_type warns when it falls back to object
        Typed(applied) ==
            IF enum_values_type(pt.annotated_type).base = "object"
            THEN Warn(applied, "Using object")
            ELSE applied
        \* except TypeError: pass
        Cast(typed) ==
            Swallow(ColumnAsType(typed, pt.field_name,
                        PyTypeDtype(enum_values_type(pt.annotated_type).base)),
                    typed, {"TypeError"})
        ValuesCast(applied) ==
            IF applied.err # "none" THEN applied ELSE Cast(Typed(applied))
    IN  CASE pt.config.store_enum_members_as = "names" ->
                NamesCast(ColumnApply(st, pt.field_name, "name"))
          [] pt.config.store_enum_members_as = "values" ->
                ValuesCast(ColumnApply(st, pt.field_name, "value"))
          [] OTHER -> st

\* the repair of a nullable integer column without its cast
IntegerPrevalidateUncast(pt, st) == st

\* IntegerPapayaType.prevalidate_column
IntegerPrevalidate(pt, st) ==
    IF ~pt.nullable THEN st
    ELSE IF pt.config.store_nullable_ints_as_floats
         THEN ColumnAsType(st, pt.field_name, DT("float64"))
         ELSE Warn(ColumnAsType(st, pt.field_name, DT("Int64")), "Int64Dtype")

\* LiteralPapayaType.prevalidate_column
LiteralPrevalidate(pt, st) ==
    Swallow(ColumnAsType(st, pt.field_name,
                         PyTypeDtype(literal_values_type(pt.annotated_type).base)),
            st, {"TypeError", "ValueError"})

\* <codec>.prevalidate_column
prevalidate_column(pt, st) ==
    LET kind == find_papaya_type(pt.annotated_type)
    IN  CASE kind = "Boolean" -> BooleanPrevalidate(pt, st)
          [] kind = "Date" -> DatePrevalidate(pt, st)
          [] kind = "Enum" -> EnumPrevalidate(pt, st)
          [] kind = "Integer" -> IntegerPrevalidate(pt, st)
          [] kind = "Literal" -> LiteralPrevalidate(pt, st)
          [] OTHER -> st

\* pa.Column(dtype, nullable, checks): checks is the set of value sets the
\* isin checks allow (empty: no check)
Column(dtype, nullable, checks) ==
    [dtype |-> dtype, nullable |-> nullable, checks |-> checks]
NoColumn == Column(DT("object"), TRUE, {})

\* The dtype pandera resolves a Python type to; GeneralPapayaType.validator
\* falls back to object on the TypeError for a type pandera does not know
GeneralDtype(base) ==
    CASE base = "float" -> DT("float64")
      [] base = "int" -> DT("int64")
      [] base = "bool" -> DT("bool")
      [] base = "str" -> DT("str")
      [] base \in {"Timedelta", "timedelta"} -> DT("timedelta64")
      [] OTHER -> DT("object")

\* The pa.Column a validator returns, without the repair it runs first
schema_requirement(pt, checks) ==
    LET kind == find_papaya_type(pt.annotated_type)
    IN  CASE kind = "Boolean" ->
                IF ~pt.nullable THEN Column(DT("bool"), FALSE, checks)
                ELSE IF pt.config.store_nullable_bools_as_objects
                     THEN Column(DT("object"), TRUE, checks)
                     ELSE Column(DT("boolean"), TRUE, checks)
          [] kind = "Date" ->
                IF pt.config.store_dates_as_timestamps
                THEN Column(DTtz("-"), pt.nullable, checks)
                ELSE Column(DT("object"), pt.nullable, checks)
          [] kind = "Integer" ->
                IF ~pt.nullable THEN Column(DT("int64"), FALSE, checks)
                ELSE IF pt.config.store_nullable_ints_as_floats
                     THEN Column(DT("float64"), TRUE, checks)
                     ELSE Column(DT("Int64"), TRUE, checks)
          [] kind = "Datetimey" ->
                Column(DTtz(PayloadTz(pt.annotated_with)), pt.nullable, checks)
          [] kind = "String" -> Column(DT("object"), pt.nullable, checks)
          [] OTHER -> Column(GeneralDtype(pt.annotated_type.base), pt.nullable, checks)

\* validator() of the codecs that do not delegate: repair, then the column
LeafValidator(pt, st, checks) ==
    [st |-> prevalidate_column(pt, st), col |-> schema_requirement(pt, checks)]

\* EnumPapayaType.validator
EnumValidator(pt, st) ==
    LET Schema(repaired) ==
            CASE pt.config.store_enum_members_as = "members" ->
                    [st |-> repaired,
                     col |-> Column(DT("object"), pt.nullable,
                                    {enum_members(pt.annotated_type)})]
              [] pt.config.store_enum_members_as = "names" ->
                    [st |-> repaired,
                     col |-> Column(DT("str"), pt.nullable,
                                    {enum_names(pt.annotated_type)})]
              [] OTHER ->
                    IF repaired.err # "none" THEN [st |-> repaired, col |-> NoColumn]
                    ELSE LeafValidator(
                            [pt EXCEPT !.annotated_type = enum_values_type(pt.annotated_type)],
                            repaired, {enum_values(pt.annotated_type)})
    IN  Schema(prevalidate_column(pt, st))

\* LiteralPapayaType.validator
LiteralValidator(pt, st) ==
    LET Schema(repaired, inner) ==
            IF repaired.err # "none" THEN [st |-> repaired, col |-> NoColumn]
            ELSE IF find_papaya_type(inner.annotated_type) = "Enum"
                 THEN EnumValidator(inner, repaired)
                 ELSE LeafValidator(inner, repaired, {literal_values(pt.annotated_type)})
    IN  Schema(prevalidate_column(pt, st),
               [pt EXCEPT !.annotated_type = literal_values_type(pt.annotated_type)])

\* <codec>.validator(df): repairs the field's column in df and returns the
\* column schema
validator(pt, st) ==
    LET kind == find_papaya_type(pt.annotated_type)
    IN  CASE kind = "Enum" -> EnumValidator(pt, st)
          [] kind = "Literal" -> LiteralValidator(pt, st)
          [] OTHER -> LeafValidator(pt, st, {})

-----------------------------------------------------------------------------
(* The validation pipeline: objects_dataframe_base.py *)

\* A record type: cls.fields is dataclasses.fields(cls), a sequence of
\* [name, type]; cls.papaya_config its papaya_config attribute.
\* ObjectsDataframeBase._fields / _index_fields / _non_index_fields
Fields(c) == c.fields
IndexFields(c) == SelectSeq(c.fields, LAMBDA f : is_index_annotation(f.type))
NonIndexFields(c) == SelectSeq(c.fields, LAMBDA f : ~is_index_annotation(f.type))
FieldNames(fields) == [i \in 1..Len(fields) |-> fields[i].name]
FieldNamed(c, name) == c.fields[CHOOSE i \in 1..Len(c.fields) : c.fields[i].name = name]

\* find_papaya_type(f.name, *cls._process_type_annotation(f.type), config=...)
CodecOf(c, field) ==
    PapayaType(field.name, process_type_annotation(field.type), c.papaya_config)

\* ObjectsDataframeBase._get_dataframe_schema: every field's validator in
\* declared order, each repairing its column on the way; cols collects the
\* column schema per field name.
RECURSIVE ValidatorsFrom(_, _, _, _)
ValidatorsFrom(c, i, st, cols) ==
    LET Rest(r) == ValidatorsFrom(c, i + 1, r.st, cols @@ (c.fields[i].name :> r.col))
    IN  IF i > Len(c.fields) \/ st.err # "none" THEN [st |-> st, cols |-> cols]
        ELSE Rest(validator(CodecOf(c, c.fields[i]), st))

\* the sections with every field's schema among the columns as well
SchemaSectionsAllColumns(c, cols) ==
    [columns |-> cols,
     index |-> [j \in 1..Len(IndexFields(c)) |->
                   [name |-> IndexFields(c)[j].name, col |-> cols[IndexFields(c)[j].name]]]]

\* The two sections of the DataframeSchema: pa.Column per field that is not
\* an index field, and the index schema, one level per index field in
\* declared order (none: index=None, one: pa.Index, several: pa.MultiIndex)
SchemaSections(c, cols) ==
    [columns |-> [name \in DOMAIN cols \ Range(FieldNames(IndexFields(c))) |-> cols[name]],
     index |-> [j \in 1..Len(IndexFields(c)) |->
                   [name |-> IndexFields(c)[j].name, col |-> cols[IndexFields(c)[j].name]]]]

\* _process_type_annotation is an attribute the dataframe_backed_object
\* decorator gives the class: AttributeError on a class without it
get_dataframe_schema(c, st) ==
    LET Sectioned(r) ==
            IF r.st.err # "none" THEN r @@ [columns |-> <<>>, index |-> <<>>]
            ELSE r @@ SchemaSections(c, r.cols)
    IN  IF ~c.decorated
        THEN [st |-> [st EXCEPT !.err = "AttributeError"], cols |-> <<>>,
              columns |-> <<>>, index |-> <<>>]
        ELSE Sectioned(ValidatorsFrom(c, 1, st, <<>>))

\* `index_fields_in_columns is index_fields_equals_index`: a list object is
\* never the same object as a bool
ListIsBool(aList, aBool) == FALSE
\* bool(aList)
Truthy(aList) == Len(aList) > 0

\* set_index=True without the check that no field is an index level
PrevalidateIndexTrueUnchecked(c, st) ==
    LET index_fields_in_columns ==
            [i \in 1..Len(IndexFields(c)) |-> IndexFields(c)[i].name \in st.df.columns]
        Promoted(r) == [st EXCEPT !.df = r.df, !.err = r.err]
    IN  IF ~(\A i \in 1..Len(index_fields_in_columns) : index_fields_in_columns[i])
        THEN [st EXCEPT !.err = "ValueError"]
        ELSE Promoted(set_index(st.df, FieldNames(IndexFields(c))))

\* set_index is True
PrevalidateIndexTrue(c, st) ==
    LET index_fields_in_columns ==
            [i \in 1..Len(IndexFields(c)) |-> IndexFields(c)[i].name \in st.df.columns]
        fields_in_index ==
            [i \in 1..Len(c.fields) |-> c.fields[i].name \in Range(st.df.index.names)]
        Promoted(r) == [st EXCEPT !.df = r.df, !.err = r.err]
    IN  IF \E i \in 1..Len(fields_in_index) : fields_in_index[i]
        THEN [st EXCEPT !.err = "ValueError"]
        ELSE IF ~(\A i \in 1..Len(index_fields_in_columns) : index_fields_in_columns[i])
        THEN [st EXCEPT !.err = "ValueError"]
        ELSE Promoted(set_index(st.df, FieldNames(IndexFields(c))))

\* set_index=False accepting any index that carries the index fields
PrevalidateIndexFalseContained(c, st) ==
    LET index_fields_in_columns ==
            [i \in 1..Len(IndexFields(c)) |-> IndexFields(c)[i].name \in st.df.columns]
    IN  IF ~(Range(FieldNames(IndexFields(c))) \subseteq Range(st.df.index.names))
        THEN [st EXCEPT !.err = "ValueError"]
        ELSE IF \E i \in 1..Len(index_fields_in_columns) : index_fields_in_columns[i]
        THEN [st EXCEPT !.err = "ValueError"]
        ELSE st

\* set_index is False
PrevalidateIndexFalse(c, st) ==
    LET index_fields_in_columns ==
            [i \in 1..Len(IndexFields(c)) |-> IndexFields(c)[i].name \in st.df.columns]
        index_fields_equals_index ==
            st.df.index.names = FieldNames(IndexFields(c))
    IN  IF ~index_fields_equals_index THEN [st EXCEPT !.err = "ValueError"]
        ELSE IF \E i \in 1..Len(index_fields_in_columns) : index_fields_in_columns[i]
        THEN [st EXCEPT !.err = "ValueError"]
        ELSE st

\* set_index == "auto"
PrevalidateIndexAuto(c, st) ==
    LET index_fields_in_columns ==
            [i \in 1..Len(IndexFields(c)) |-> IndexFields(c)[i].name \in st.df.columns]
        index_fields_equals_index ==
            st.df.index.names = FieldNames(IndexFields(c))
        Promoted(r) == [st EXCEPT !.df = r.df, !.err = r.err]
    IN  IF ListIsBool(index_fields_in_columns, index_fields_equals_index)
        THEN [st EXCEPT !.err = "ValueError"]
        ELSE IF Truthy(index_fields_in_columns)
             THEN Promoted(set_index(st.df, FieldNames(IndexFields(c))))
             ELSE st

\* ObjectsDataframeBase._prevalidate_index
prevalidate_index(c, st) ==
    CASE c.papaya_config.set_index = "true" -> PrevalidateIndexTrue(c, st)
      [] c.papaya_config.set_index = "false" -> PrevalidateIndexFalse(c, st)
      [] c.papaya_config.set_index = "auto" -> PrevalidateIndexAuto(c, st)
      [] OTHER -> [st EXCEPT !.err = "ValueError"]

\* _process_field without its time zone conversion
ProcessFieldUnconverted(values, dtype, schema_dtype) ==
    [err |-> "none", values |-> values, dtype |-> dtype, warn |-> {}]

\* ObjectsDataframeBase._process_field on the values and dtype of a column or
\* index level: [err, values, dtype, warn]
process_field(values, dtype, schema_dtype) ==
    LET Converted(a1) ==
            IF a1.err = "none"
               /\ schema_dtype.k = "datetime64" /\ schema_dtype.tz # "-"
               /\ a1.dtype.k = "datetime64" /\ a1.dtype.tz # "-"
               /\ schema_dtype.tz # a1.dtype.tz
            THEN [err |-> "none",
                  values |-> [i \in 1..Len(values) |->
                                 IF a1.values[i] = NaT THEN NaT
                                 ELSE [a1.values[i] EXCEPT !.tz = schema_dtype.tz]],
                  dtype |-> schema_dtype,
                  warn |-> {"tz_convert"}]
            ELSE [err |-> a1.err, values |-> a1.values, dtype |-> a1.dtype, warn |-> {}]
        \* except TypeError: pass
        AllNa(cast) ==
            IF cast.err = "none"
            THEN Converted([err |-> "none", values |-> cast.values, dtype |-> cast.dtype])
            ELSE IF cast.err # "TypeError"
            THEN Converted([err |-> cast.err, values |-> values, dtype |-> dtype])
            ELSE Converted([err |-> "none", values |-> values, dtype |-> dtype])
    IN  IF \A i \in 1..Len(values) : IsNa(values[i])
        THEN AllNa(AsType(schema_dtype, values))
        ELSE Converted([err |-> "none", values |-> values, dtype |-> dtype])

\* the first loop of _process_fields: self[name] = self._process_field(...)
RECURSIVE ProcessColumnsFrom(_, _, _, _)
ProcessColumnsFrom(c, i, st, cols) ==
    LET Assigned(name, r) ==
            IF r.err # "none" THEN [st EXCEPT !.err = r.err]
            ELSE [st EXCEPT !.df = SetColumn(st.df, name, r.values, r.dtype),
                            !.warn = @ \cup r.warn]
        Processed(name) ==
            IF name \notin st.df.columns THEN st
            ELSE Assigned(name, process_field(ColumnValues(st.df, name),
                                              st.df.dtypes[name], cols[name].dtype))
        Rest(next) == ProcessColumnsFrom(c, i + 1, next, cols)
    IN  IF i > Len(NonIndexFields(c)) \/ st.err # "none" THEN st
        ELSE Rest(Processed(NonIndexFields(c)[i].name))

\* MultiIndex.set_levels(new, level=l), verify_integrity=True: the new level
\* values replace the level's labels, the codes stay; ValueError unless the
\* new labels are unique
set_levels(index, new, l) ==
    IF Cardinality(Range(new)) # Len(new) THEN [err |-> "ValueError", index |-> index]
    ELSE IF \E i \in 1..Len(index.codes[l]) : index.codes[l][i] > Len(new)
    THEN [err |-> "ValueError", index |-> index]
    ELSE [err |-> "none", index |-> [index EXCEPT !.levels[l] = new]]

\* the second loop of _process_fields, over the index fields
RECURSIVE ProcessIndexFrom(_, _, _, _)
ProcessIndexFrom(c, i, st, cols) ==
    LET index == st.df.index
        Leveled(l, r, leveled) ==
            IF leveled.err # "none"
            THEN [st EXCEPT !.err = leveled.err, !.warn = @ \cup r.warn]
            ELSE [st EXCEPT !.df.index = [leveled.index EXCEPT !.dtypes[l] = r.dtype],
                            !.warn = @ \cup r.warn]
        Assigned(l, r) ==
            IF r.err # "none" THEN [st EXCEPT !.err = r.err]
            ELSE IF IsMultiIndex(st.df) THEN Leveled(l, r, set_levels(index, r.values, l))
            ELSE [st EXCEPT !.df.index = [index EXCEPT
                                             !.levels = <<r.values>>,
                                             !.codes = <<Identity(Len(r.values))>>,
                                             !.dtypes = <<r.dtype>>],
                            !.warn = @ \cup r.warn]
        Level(name, l) ==
            Assigned(l, process_field(LevelValues(index, l), index.dtypes[l],
                                      cols[name].dtype))
        Processed(name) ==
            IF name \notin Range(index.names) THEN st
            ELSE Level(name, PositionOf(index.names, name))
        Rest(next) == ProcessIndexFrom(c, i + 1, next, cols)
    IN  IF i > Len(IndexFields(c)) \/ st.err # "none" THEN st
        ELSE Rest(Processed(IndexFields(c)[i].name))

\* ObjectsDataframeBase._process_fields
process_fields(c, st, cols) ==
    ProcessIndexFrom(c, 1, ProcessColumnsFrom(c, 1, st, cols), cols)

\* a check of the kind of storage only, whatever the time zone
ColumnConformsAnyZone(col, dtype, values) ==
    /\ dtype.k = col.dtype.k
    /\ col.nullable \/ \A i \in 1..Len(values) : ~IsNa(values[i])

\* pandera's check of one column or index level against its schema: the
\* dtype as it is (no coercion), nulls only where nullable, the isin checks
\* on the values that are not null.  A str column is an object column
\* holding strings.
ColumnConforms(col, dtype, values) ==
    /\ IF col.dtype.k = "str"
       THEN dtype.k = "object"
            /\ \A i \in 1..Len(values) : values[i].ty = "str" \/ IsNa(values[i])
       ELSE dtype = col.dtype
    /\ col.nullable \/ \A i \in 1..Len(values) : ~IsNa(values[i])
    /\ \A allowed \in col.checks :
          \A i \in 1..Len(values) : IsNa(values[i]) \/ PyIn(values[i], allowed)

\* schema.validate(pd.DataFrame(self)): every non-index field is a column
\* that conforms; with index fields, the index has one conforming level per
\* index field and no two rows share a key.
schema_validate(c, frame, cols) ==
    LET nonIndex == NonIndexFields(c)
        indexed == IndexFields(c)
        columnsOk ==
            \A i \in 1..Len(nonIndex) :
                /\ nonIndex[i].name \in frame.columns
                /\ ColumnConforms(cols[nonIndex[i].name], frame.dtypes[nonIndex[i].name],
                                  ColumnValues(frame, nonIndex[i].name))
        indexOk ==
            \/ Len(indexed) = 0
            \/ /\ NLevels(frame) = Len(indexed)
               /\ \A l \in 1..Len(indexed) :
                     ColumnConforms(cols[indexed[l].name], frame.index.dtypes[l],
                                    LevelValues(frame.index, l))
               /\ \A i, j \in 1..NRows(frame) :
                     RowKey(frame, i) = RowKey(frame, j) => i = j
    IN  IF columnsOk /\ indexOk THEN "none" ELSE "SchemaError"

\* ObjectsDataframeBase.validate: the table as it is left, the exception
\* raised ("none": returned normally), the warnings, and the step reached:
\* "schema" (_get_dataframe_schema), "index" (_prevalidate_index), "repair"
\* (_process_fields), "check" (schema.validate), "done".
validate(c, frame) ==
    LET Checked(s3, checked) ==
            IF checked # "none" THEN [s3 EXCEPT !.err = checked] @@ [stage |-> "check"]
            ELSE s3 @@ [stage |-> "done"]
        Repaired(s3, cols) ==
            IF s3.err # "none" THEN s3 @@ [stage |-> "repair"]
            ELSE Checked(s3, schema_validate(c, s3.df, cols))
        Indexed(s2, cols) ==
            IF s2.err # "none" THEN s2 @@ [stage |-> "index"]
            ELSE Repaired(process_fields(c, s2, cols), cols)
        Built(built) ==
            IF built.st.err # "none" THEN built.st @@ [stage |-> "schema"]
            ELSE IF Len(IndexFields(c)) > 0
            THEN Indexed(prevalidate_index(c, built.st), built.cols)
            ELSE Indexed(built.st, built.cols)
    IN  Built(get_dataframe_schema(c, [df |-> frame, err |-> "none", warn |-> {}]))

-----------------------------------------------------------------------------
(* Row handles: objects_backing_dataframe.py *)

\* the rows the label key addresses
RowsAt(frame, key) == {i \in 1..NRows(frame) : RowKey(frame, i) = key}

\* df.loc[key, c]: the cell, a Series when several rows carry the label
Loc(frame, key, c) ==
    IF RowsAt(frame, key) = {} THEN Raise("KeyError")
    ELSE IF Cardinality(RowsAt(frame, key)) > 1 THEN Ok(Val("Series", 0))
    ELSE Ok(frame.cells[CHOOSE i \in RowsAt(frame, key) : TRUE][c])

\* df.at[key, c] = value for a label that is no row of the table: pandas
\* appends the row; its other cells are missing values and every column is
\* rebuilt around them
Enlarge(frame, key, c, value) ==
    LET names == frame.columns \cup {c}
        n == NRows(frame)
        old(x, i) == IF x \in frame.columns THEN ToObject(frame.cells[i][x]) ELSE None
        col(x) == MakeColumn([i \in 1..(n + 1) |->
                                 IF i <= n THEN old(x, i)
                                 ELSE IF x = c THEN ToObject(value) ELSE None])
        index == frame.index
        known(l) == key[l] \in Range(index.levels[l])
    IN  [columns |-> names,
         dtypes |-> [x \in names |-> col(x).dtype],
         cells |-> [i \in 1..(n + 1) |-> [x \in names |-> col(x).values[i]]],
         index |-> [index EXCEPT
                       !.levels = [l \in 1..Len(index.names) |->
                                      IF known(l) THEN @[l] ELSE Append(@[l], key[l])],
                       !.codes = [l \in 1..Len(index.names) |->
                                     Append(@[l], IF known(l)
                                                  THEN PositionOf(index.levels[l], key[l])
                                                  ELSE Len(index.levels[l]) + 1)]]]

\* A write that never reaches the shared table
AtPutLost(frame, key, c, value) == frame

\* df.at[key, c] = value (pandas 2.x): the value as the column's dtype stores
\* it; a value the dtype cannot hold turns the column into an object column;
\* a name that is no column becomes one; a label that is no row becomes one.
AtPut(frame, key, c, value) ==
    IF RowsAt(frame, key) = {} THEN Enlarge(frame, key, c, value)
    ELSE IF c \notin frame.columns
    THEN LET col == MakeColumn([i \in 1..NRows(frame) |->
                                   IF RowKey(frame, i) = key THEN ToObject(value)
                                   ELSE None])
         IN  [frame EXCEPT
                !.columns = @ \cup {c},
                !.dtypes = [x \in frame.columns \cup {c} |->
                               IF x = c THEN col.dtype ELSE frame.dtypes[x]],
                !.cells = [i \in 1..NRows(frame) |->
                              [x \in frame.columns \cup {c} |->
                                  IF x = c THEN col.values[i] ELSE frame.cells[i][x]]]]
    ELSE LET stored == Coerce(frame.dtypes[c], value)
         IN  IF stored.err = "none"
             THEN [frame EXCEPT !.cells = [i \in 1..NRows(frame) |->
                      IF RowKey(frame, i) = key
                      THEN [frame.cells[i] EXCEPT ![c] = stored.val]
                      ELSE frame.cells[i]]]
             ELSE [frame EXCEPT
                      !.dtypes = [@ EXCEPT ![c] = DT("object")],
                      !.cells = [i \in 1..NRows(frame) |->
                         IF RowKey(frame, i) = key
                         THEN [frame.cells[i] EXCEPT ![c] = value]
                         ELSE [frame.cells[i] EXCEPT ![c] = ToObject(@)]]]

\* the value fget hands to the codec: the cell of a column, the component of
\* the handle's key for a level of a MultiIndex, the key for the index
LocateValue(frame, key, field_name) ==
    IF field_name \in frame.columns THEN Loc(frame, key, field_name)
    ELSE IF IsMultiIndex(frame)
    THEN IF RowsAt(frame, key) = {} THEN Raise("KeyError")
         ELSE IF Cardinality(RowsAt(frame, key)) > 1 THEN Raise("AttributeError")
         ELSE IF field_name \notin Range(frame.index.names) THEN Raise("ValueError")
         ELSE Ok(key[PositionOf(frame.index.names, field_name)])
    ELSE IF frame.index.names[1] = field_name THEN Ok(key[1])
    ELSE Raise("UnboundLocalError")

\* dataframe_backed_object.fget of a bound handle
fget(c, frame, key, field_name) ==
    LET Decoded(located) ==
            IF located.err # "none" THEN located
            ELSE process_getter_value(CodecOf(c, FieldNamed(c, field_name)), located.val)
    IN  Decoded(LocateValue(frame, key, field_name))

\* fset storing the value as it is, without the codec's encoding
FsetUnencoded(c, frame, key, field_name, value) ==
    IF field_name \in Range(frame.index.names)
    THEN [err |-> "SettingOnIndexLevelError", df |-> frame]
    ELSE [err |-> "none", df |-> AtPut(frame, key, field_name, value)]

\* fset without its guard on index levels
FsetNoIndexGuard(c, frame, key, field_name, value) ==
    LET Stored(encoded) ==
            IF encoded.err # "none" THEN [err |-> encoded.err, df |-> frame]
            ELSE [err |-> "none", df |-> AtPut(frame, key, field_name, encoded.val)]
    IN  Stored(process_setter_value(CodecOf(c, FieldNamed(c, field_name)), value))

\* dataframe_backed_object.fset of a bound handle: [err, df]
fset(c, frame, key, field_name, value) ==
    LET Stored(encoded) ==
            IF encoded.err # "none" THEN [err |-> encoded.err, df |-> frame]
            ELSE [err |-> "none", df |-> AtPut(frame, key, field_name, encoded.val)]
    IN  IF field_name \in Range(frame.index.names)
        THEN [err |-> "SettingOnIndexLevelError", df |-> frame]
        ELSE Stored(process_setter_value(CodecOf(c, FieldNamed(c, field_name)), value))

-----------------------------------------------------------------------------
(* Defining a record type: dataframe_backed_object(cls) *)

MaxFields == 2

Pending == [state |-> "pending", err |-> "none", resolved |-> <<>>]

\* The annotations record types are defined with
SimpleTypes ==
    {Ty(b) : b \in {"int", "str", "bool", "float", "date", "AnEnum", "Timestamp",
                    "datetime", "Timedelta", "UUID"}}
    \cup {Annotated(Ty(b), <<p>>) : b \in {"Timestamp", "datetime"},
                                    p \in {"DateTime(tz=None)", "DateTime(tz=Toronto)"}}
    \cup {Annotated(Ty("int"), <<"DataframeIndex">>),
          Annotated(Ty("Timestamp"), <<"DataframeIndex">>),
          Annotated(Ty("Timestamp"), <<"DateTime(tz=Toronto)", "DataframeIndex">>)}
    \cup {Lit({Val("int", 1), Val("int", 2)}), Lit({Val("int", 1), Val("int", 2), None})}

RawAnnotations ==
    {Plain(t) : t \in SimpleTypes}
    \cup {Optional(t) : t \in SimpleTypes}
    \cup {Union(<<Ty("int"), t>>) : t \in {Ty("str"), Ty("Timestamp")}}
    \cup {Union(<<Ty("int"), Ty("str"), NoneTypeT>>)}

AnnotInit ==
    /\ fieldTypes \in UNION {[1..n -> RawAnnotations] : n \in 1..MaxFields}
    /\ definition = Pending

\* for field in dataclasses.fields(cls): _process_type_annotation(field.type)
\* the first TypeError leaves the class undefined
DefineRecordType ==
    /\ definition.state = "pending"
    /\ LET resolved == [i \in 1..Len(fieldTypes) |-> process_type_annotation(fieldTypes[i])]
       IN  definition' =
              IF \E i \in 1..Len(fieldTypes) : resolved[i].err # "none"
              THEN [state |-> "raised", err |-> "TypeError", resolved |-> <<>>]
              ELSE [state |-> "defined", err |-> "none", resolved |-> resolved]
    /\ UNCHANGED <<fieldTypes, codecVars, tableVars, yielded, warnings>>

-----------------------------------------------------------------------------
(* Tables: ObjectsBackingDataframe[T](data), DataFrameConvertible[T](data) *)

MaxRows == 2
MaxWrites == 2
MaxValidations == 2

Field(n, t) == [name |-> n, type |-> t]
Str(n) == Val("str", n)

\* The record types of the tests
UserFields ==
    <<Field("id", Plain(Annotated(Ty("int"), <<"DataframeIndex">>))),
      Field("name", Plain(Ty("str")))>>
FooFields ==
    <<Field("index_field_1", Plain(Annotated(Ty("int"), <<"DataframeIndex">>))),
      Field("index_field_2", Plain(Annotated(Ty("str"), <<"DataframeIndex">>))),
      Field("non_index_field", Plain(Ty("float")))>>
VisitorFields ==
    <<Field("user_id", Plain(Ty("int"))),
      Field("points_balance", Optional(Ty("int")))>>

\* Record types with timestamp fields declared in a time zone, as an index
\* level of a single and of a two-level index and as a column
TorontoStamp(meta) ==
    Plain(Annotated(Ty("Timestamp"), <<"DateTime(tz=Toronto)">> \o meta))
EventFields ==
    <<Field("at", TorontoStamp(<<"DataframeIndex">>)),
      Field("seen", TorontoStamp(<<>>))>>
LogFields ==
    <<Field("at", TorontoStamp(<<"DataframeIndex">>)),
      Field("n", Plain(Annotated(Ty("int"), <<"DataframeIndex">>))),
      Field("seen", TorontoStamp(<<>>))>>

\* A record type with a timestamp field declared in a zone, one declared
\* without a zone, and a date field
StampFields ==
    <<Field("made", TorontoStamp(<<>>)),
      Field("noted", Plain(Annotated(Ty("Timestamp"), <<"DateTime(tz=None)">>))),
      Field("day", Plain(Ty("date")))>>

\* Record types with a boolean and an integer field, not nullable and nullable
TallyFields ==
    <<Field("flag", Plain(Ty("bool"))), Field("count", Plain(Ty("int")))>>
OptionalTallyFields ==
    <<Field("flag", Optional(Ty("bool"))), Field("count", Optional(Ty("int")))>>

\* A record type whose index field is an enum
GradedFields ==
    <<Field("grade", Plain(Annotated(Ty("AnEnum"), <<"DataframeIndex">>))),
      Field("score", Plain(Ty("float")))>>

\* The records the data handed to a constructor is drawn from
UserRecords ==
    {[id |-> Val("int", i), name |-> Str(n)] : i \in {1, 2}, n \in {1}}
    \cup {[id |-> Val("int", 1), name |-> None]}
FooRecords ==
    {[index_field_1 |-> Val("int", 1), index_field_2 |-> Str(2),
      non_index_field |-> Val("float", 4)],
     [index_field_1 |-> Val("int", 2), index_field_2 |-> Str(1),
      non_index_field |-> Val("float", 7)],
     [index_field_1 |-> Val("int", 1), index_field_2 |-> Str(1),
      non_index_field |-> Val("float", 7)]}
VisitorRecords ==
    {[user_id |-> Val("int", 1), points_balance |-> None],
     [user_id |-> Val("int", 2), points_balance |-> Val("int", 5)]}
EventRecords ==
    {[at |-> Stamp("Timestamp", i, z), seen |-> Stamp("Timestamp", i, z)] :
        i \in {1, 2}, z \in {"-", "UTC", "Toronto"}}
LogRecords ==
    {[at |-> Stamp("Timestamp", i, z), n |-> Val("int", i),
      seen |-> Stamp("Timestamp", i, z)] : i \in {1, 2}, z \in {"UTC", "Toronto"}}
TallyRecords ==
    {[flag |-> b, count |-> n] : b \in {Val("bool", 1), None}, n \in {Val("int", 1), None}}
StampRecords ==
    {[made |-> Stamp("Timestamp", 1, z1), noted |-> Stamp("Timestamp", 2, z2), day |-> d] :
        z1, z2 \in {"-", "Toronto"},
        d \in {Val("date", 3), Stamp("Timestamp", 3, "Toronto")}}
GradedRecords ==
    {[grade |-> Member(i), score |-> Val("float", 4)] : i \in {1, 2}}

Config(policy) == [DefaultConfig EXCEPT !.set_index = policy]

\* A record type, its papaya_config, whether dataframe_backed_object
\* decorates it, and the table class parameterised with it
RecordType(fields, policy, decorated, table) ==
    [fields |-> fields, papaya_config |-> Config(policy),
     decorated |-> decorated, table |-> table]

RecordsOf(c) ==
    CASE c.fields = UserFields -> UserRecords
      [] c.fields = FooFields -> FooRecords
      [] c.fields = EventFields -> EventRecords
      [] c.fields = LogFields -> LogRecords
      [] c.fields = GradedFields -> GradedRecords
      [] c.fields = StampFields -> StampRecords
      [] c.fields \in {TallyFields, OptionalTallyFields} -> TallyRecords
      [] OTHER -> VisitorRecords

DataOf(c) == UNION {[1..n -> RecordsOf(c)] : n \in 0..MaxRows}

\* The shapes data arrives in: every field a column, the index fields
\* promoted, promoted and kept as columns, promoted behind the old index,
\* only the first index field promoted, another column promoted, a column
\* missing
Shapes == {"columns", "promoted", "kept", "appended", "partial", "other", "missing"}

Shaped(c, records, shape) ==
    LET indexed == FieldNames(IndexFields(c))
        nonIndexed == FieldNames(NonIndexFields(c))
        Reshaped(frame) ==
            CASE shape = "promoted" /\ Len(indexed) > 0 -> set_index(frame, indexed).df
              [] shape = "kept" /\ Len(indexed) > 0 ->
                    [frame EXCEPT !.index = IndexFromColumns(frame, indexed)]
              [] shape = "appended" /\ Len(indexed) > 0 -> set_index_append(frame, indexed)
              [] shape = "partial" /\ Len(indexed) > 0 ->
                    set_index(frame, <<indexed[1]>>).df
              [] shape = "other" -> set_index(frame, <<nonIndexed[Len(nonIndexed)]>>).df
              [] shape = "missing" -> DropColumns(frame, {nonIndexed[Len(nonIndexed)]})
              [] OTHER -> frame
    IN  Reshaped(DataFrameOf(Range(FieldNames(c.fields)), records))

NoKey == <<>>

Outcome(op, key, field_name, arg, err, val, stage, clean, before) ==
    [op |-> op, key |-> key, field |-> field_name, arg |-> arg, err |-> err,
     val |-> val, stage |-> stage, clean |-> clean, before |-> before]

TableInit(types, shapes) ==
    /\ cls \in types
    /\ \E records \in DataOf(cls), shape \in shapes : df0 = Shaped(cls, records, shape)
    /\ df = df0
    /\ phase = "new"
    /\ validated = 0
    /\ mutated = FALSE
    /\ writes = 0
    /\ handles = {}
    /\ yielded = <<>>
    /\ user_ref = TRUE
    /\ warnings = {}
    /\ last = Outcome("none", NoKey, "", None, "none", None, "", FALSE, df0)

\* The exceptions __patched_generic_alias_call lets through
Reraised == {"TypeError", "ValueError", "SchemaError"}

Min(a, b) == IF a < b THEN a ELSE b

\* ObjectsBackingDataframe[T](data): the instance is built, then setting
\* __orig_class__ runs validate(); an exception outside Reraised is dropped
\* and the instance returned
ConstructTable ==
    /\ phase = "new"
    /\ LET Returned(r, raised) ==
              /\ phase' = IF raised THEN "raised" ELSE "live"
              /\ df' = r.df
              /\ validated' = IF r.err = "none" THEN 1 ELSE 0
              /\ mutated' = (r.err # "none")
              /\ warnings' = r.warn
              /\ last' = Outcome("construct", NoKey, "", None,
                                 IF raised THEN r.err ELSE "none", None, r.stage,
                                 FALSE, df0)
           Validated(r) == Returned(r, r.err \in Reraised)
       IN  Validated(validate(cls, df0))
    /\ UNCHANGED <<cls, df0, writes, handles, yielded, user_ref, annotVars, codecVars>>

\* table.validate(), called by the holder of the table
Validate ==
    /\ phase = "live"
    /\ user_ref
    /\ LET Validated(r) ==
              /\ df' = r.df
              /\ validated' = IF r.err = "none" THEN Min(validated + 1, MaxValidations)
                              ELSE validated
              /\ mutated' = IF r.err = "none" THEN FALSE ELSE (mutated \/ r.df # df)
              /\ warnings' = r.warn
              /\ last' = Outcome("validate", NoKey, "", None, r.err, None, r.stage,
                                 validated > 0 /\ ~mutated, df)
       IN  Validated(validate(cls, df))
    /\ UNCHANGED <<cls, df0, phase, writes, handles, yielded, user_ref, annotVars,
                   codecVars>>

\* ObjectsBackingDataframe.__iter__, run to its end: one handle per row,
\* bound to the table and the row's label
Iterate ==
    /\ phase = "live"
    /\ user_ref
    /\ cls.table = "ObjectsBackingDataframe"
    /\ yielded' = [i \in 1..NRows(df) |-> RowKey(df, i)]
    /\ handles' = handles \cup {RowKey(df, i) : i \in 1..NRows(df)}
    /\ last' = Outcome("iter", NoKey, "", None, "none", None, "", FALSE, df)
    /\ UNCHANGED <<cls, df0, df, phase, validated, mutated, writes, user_ref,
                   warnings, annotVars, codecVars>>

\* DataFrameConvertible.__iter__: validate(), then one plain record per row
IterateConvertible ==
    /\ phase = "live"
    /\ user_ref
    /\ cls.table = "DataFrameConvertible"
    /\ LET Validated(r) ==
              /\ df' = r.df
              /\ validated' = IF r.err = "none" THEN Min(validated + 1, MaxValidations)
                              ELSE validated
              /\ mutated' = IF r.err = "none" THEN FALSE ELSE (mutated \/ r.df # df)
              /\ warnings' = r.warn
              /\ last' = Outcome("iter_validate", NoKey, "", None, r.err, None, r.stage,
                                 validated > 0 /\ ~mutated, df)
       IN  Validated(validate(cls, df))
    /\ UNCHANGED <<cls, df0, phase, writes, handles, yielded, user_ref, annotVars,
                   codecVars>>

\* The values assigned through handles
SetValues == {Str(3), Val("int", 7), Val("float", 7), None}

\* handle.<field>: fget
Get(key, field_name) ==
    /\ phase = "live"
    /\ key \in handles
    /\ LET Returned(r) ==
              last' = Outcome("get", key, field_name, None, r.err, r.val, "", FALSE, df)
       IN  Returned(fget(cls, df, key, field_name))
    /\ UNCHANGED <<cls, df0, df, phase, validated, mutated, writes, handles, yielded,
                   user_ref, warnings, annotVars, codecVars>>

\* handle.<field> = value: fset
Set(key, field_name, value) ==
    /\ phase = "live"
    /\ key \in handles
    /\ writes < MaxWrites
    /\ LET Returned(r) ==
              /\ df' = r.df
              /\ mutated' = (mutated \/ r.df # df)
              /\ last' = Outcome("set", key, field_name, value, r.err, None, "", FALSE, df)
       IN  Returned(fset(cls, df, key, field_name, value))
    /\ writes' = writes + 1
    /\ UNCHANGED <<cls, df0, phase, validated, handles, yielded, user_ref, warnings,
                   annotVars, codecVars>>

\* The caller drops its reference; the handles keep the table alive
DropReference ==
    /\ phase = "live"
    /\ user_ref
    /\ handles # {}
    /\ user_ref' = FALSE
    /\ last' = Outcome("del", NoKey, "", None, "none", None, "", FALSE, df)
    /\ UNCHANGED <<cls, df0, df, phase, validated, mutated, writes, handles, yielded,
                   warnings, annotVars, codecVars>>

Idle ==
    /\ fieldTypes = <<>>
    /\ definition = Pending
    /\ codec = RecordType(<<>>, "false", TRUE, "ObjectsBackingDataframe")
    /\ cvalue = None
    /\ cstage = "start"
    /\ cenc = Ok(None)
    /\ ccell = DataFrameOf({}, <<>>)
    /\ cdec = Ok(None)

\* Tables with row handles
HandleTypes ==
    {RecordType(UserFields, "false", TRUE, "ObjectsBackingDataframe"),
     RecordType(UserFields, "true", TRUE, "ObjectsBackingDataframe"),
     RecordType(FooFields, "false", TRUE, "ObjectsBackingDataframe"),
     RecordType(VisitorFields, "false", TRUE, "ObjectsBackingDataframe")}

Init ==
    /\ Idle
    /\ TableInit(HandleTypes, {"columns", "promoted"})

Next ==
    \/ ConstructTable
    \/ Validate
    \/ Iterate
    \/ \E key \in handles, i \in 1..Len(cls.fields) : Get(key, cls.fields[i].name)
    \/ \E key \in handles, i \in 1..Len(cls.fields), value \in SetValues :
          Set(key, cls.fields[i].name, value)
    \/ DropReference

Spec == Init /\ [][Next]_vars

-----------------------------------------------------------------------------
(* Validation at construction and afterwards, over every shape of data *)

TableIdle ==
    /\ cls = RecordType(<<>>, "false", TRUE, "ObjectsBackingDataframe")
    /\ df0 = DataFrameOf({}, <<>>)
    /\ df = df0
    /\ phase = "raised"
    /\ validated = 0
    /\ mutated = FALSE
    /\ writes = 0
    /\ handles = {}
    /\ yielded = <<>>
    /\ user_ref = FALSE
    /\ warnings = {}
    /\ last = Outcome("none", NoKey, "", None, "none", None, "", FALSE, df0)

Policies == {"true", "false", "auto"}

ValidatedTypes ==
    {RecordType(fields, policy, TRUE, table) :
        fields \in {UserFields, FooFields, VisitorFields, EventFields, LogFields},
        policy \in Policies,
        table \in {"ObjectsBackingDataframe", "DataFrameConvertible"}}
    \cup {RecordType(VisitorFields, "false", FALSE, "DataFrameConvertible")}

\* The tally record types under every way of storing nullable booleans and
\* integers
StorageTypes ==
    {[fields |-> fields,
      papaya_config |-> [Config("false") EXCEPT
                            !.store_nullable_bools_as_objects = asObjects,
                            !.store_nullable_ints_as_floats = asFloats],
      decorated |-> TRUE,
      table |-> "ObjectsBackingDataframe"] :
        fields \in {TallyFields, OptionalTallyFields}, asObjects, asFloats \in BOOLEAN}

\* The graded record type with its members stored as their names, under
\* every index policy
GradedTypes ==
    {[fields |-> GradedFields,
      papaya_config |-> [Config(policy) EXCEPT !.store_enum_members_as = "names"],
      decorated |-> TRUE,
      table |-> "ObjectsBackingDataframe"] : policy \in Policies}

\* The stamp record type with its dates stored as they are and as timestamps
ZoneTypes ==
    {[fields |-> StampFields,
      papaya_config |-> [Config("false") EXCEPT !.store_dates_as_timestamps = asStamps],
      decorated |-> TRUE,
      table |-> "ObjectsBackingDataframe"] : asStamps \in BOOLEAN}

ValidationInit ==
    /\ Idle
    /\ TableInit(ValidatedTypes \cup StorageTypes \cup GradedTypes \cup ZoneTypes, Shapes)

ValidationNext ==
    \/ ConstructTable
    \/ Validate
    \/ Iterate
    \/ IterateConvertible
    \/ \E key \in handles, i \in 1..Len(cls.fields) : Get(key, cls.fields[i].name)

SpecValidation == ValidationInit /\ [][ValidationNext]_vars

-----------------------------------------------------------------------------
(* Properties of row handles, under Spec *)

\* the cell a column of the dtype holds once the encoded value is written
StoredAs(dtype, encoded) ==
    IF Coerce(dtype, encoded).err = "none" THEN Coerce(dtype, encoded).val ELSE encoded

IsIndexLevel(frame, field_name) == field_name \in Range(frame.index.names)

\* C1: an assignment through a handle to a field that is an index level
\* raises SettingOnIndexLevelError, whatever the value, and leaves the
\* table's index and cells as they were.
C1_SetOnIndexLevelRaises ==
    (last.op = "set" /\ IsIndexLevel(last.before, last.field))
        => (last.err = "SettingOnIndexLevelError" /\ df = last.before)

\* an assignment of a value the field's codec would reject, to a level of a
\* MultiIndex, was refused with SettingOnIndexLevelError
C1_Witness ==
    /\ last.op = "set"
    /\ IsIndexLevel(last.before, last.field)
    /\ IsMultiIndex(last.before)
    /\ last.arg = None
    /\ last.err = "SettingOnIndexLevelError"

\* C2: after a successful assignment of v to a column through a handle with
\* key k, the cell (k, field) of the table holds encode(v); a read through a
\* handle with key k returns the decode of what the cell holds now.
C2_HandlesGoThroughTable ==
    /\ (/\ last.op = "set"
        /\ last.err = "none"
        /\ last.field \in last.before.columns
        /\ Cardinality(RowsAt(last.before, last.key)) = 1)
        => Loc(df, last.key, last.field) =
              Ok(StoredAs(last.before.dtypes[last.field],
                          process_setter_value(
                              CodecOf(cls, FieldNamed(cls, last.field)), last.arg).val))
    /\ (/\ last.op = "get"
        /\ last.field \in df.columns
        /\ Cardinality(RowsAt(df, last.key)) = 1)
        => [err |-> last.err, val |-> last.val] =
              process_getter_value(CodecOf(cls, FieldNamed(cls, last.field)),
                                   Loc(df, last.key, last.field).val)

\* a handle outliving the caller's reference reads back "c", a value only
\* an assignment through a handle can have put into the table
C2_Witness ==
    /\ last.op = "get"
    /\ ~user_ref
    /\ writes > 0
    /\ last.err = "none"
    /\ last.val = Str(3)

\* the records a table handed to the constructor can have been built from
BuiltFrom(records) ==
    \E shape \in {"columns", "promoted"} : df0 = Shaped(cls, records, shape)

\* the handle bound to key reads, field by field, as the record
ReadsAs(key, record) ==
    \A f \in Range(cls.fields) : fget(cls, df, key, f.name) = Ok(record[f.name])

\* C17: iterating a validated table yields exactly one handle per row, in row
\* order, each bound to its row's key; each handle equals, field by field,
\* the record its row was built from.
C17_IterationYieldsRecords ==
    (last.op = "iter" /\ validated > 0 /\ ~mutated /\ writes = 0) =>
        /\ Len(yielded) = NRows(df)
        /\ \A i \in 1..NRows(df) : yielded[i] = RowKey(df, i)
        /\ \A records \in DataOf(cls) :
              BuiltFrom(records) =>
                  /\ Len(records) = Len(yielded)
                  /\ \A i \in 1..Len(records) : ReadsAs(yielded[i], records[i])

\* what the last get returned or raised
Got == [err |-> last.err, val |-> last.val]

\* the codec of the field the last operation addressed, applied to a value
DecodedAs(value) == process_getter_value(CodecOf(cls, FieldNamed(cls, last.field)), value)

\* C26: a get through a handle decodes, for a field that is a column, the
\* cell at the handle's key and, for a field that is an index level, the
\* component of the handle's key at the position of the level; under a
\* two-level index every index field of every row reads back the value the
\* row was built with.
C26_GetReads ==
    last.op = "get" =>
        /\ (last.field \in df.columns /\ Loc(df, last.key, last.field).err = "none") =>
              Got = DecodedAs(Loc(df, last.key, last.field).val)
        /\ (/\ last.field \notin df.columns
            /\ last.field \in Range(df.index.names)
            /\ RowsAt(df, last.key) # {}) =>
              Got = DecodedAs(last.key[PositionOf(df.index.names, last.field)])
        /\ (/\ IsMultiIndex(df)
            /\ last.field \in Range(df.index.names)
            /\ validated > 0 /\ ~mutated /\ writes = 0) =>
              \A records \in DataOf(cls) :
                  BuiltFrom(records) =>
                      \A i \in 1..Len(records) :
                          (i <= Len(yielded) /\ yielded[i] = last.key) =>
                              Got = Ok(records[i][last.field])

-----------------------------------------------------------------------------
(* Properties of validation, under SpecValidation *)

Declared == FieldNames(IndexFields(cls))

\* the last operation ran validate() on a record type with index fields
\* under the policy, and the run came as far as the index step
RanIndexStep(policy) ==
    /\ last.op \in {"construct", "validate", "iter_validate"}
    /\ cls.papaya_config.set_index = policy
    /\ Len(IndexFields(cls)) > 0
    /\ last.stage # "schema"

NoFieldIsLevel(frame) ==
    \A i \in 1..Len(cls.fields) : ~IsIndexLevel(frame, cls.fields[i].name)
AllIndexFieldsAreColumns(frame) == Range(Declared) \subseteq frame.columns
NoIndexFieldIsColumn(frame) == Range(Declared) \cap frame.columns = {}

C7_SetIndexAuto ==
    (/\ RanIndexStep("auto")
     /\ \/ AllIndexFieldsAreColumns(last.before) /\ last.before.index.names # Declared
        \/ last.before.index.names = Declared /\ NoIndexFieldIsColumn(last.before))
        => (last.stage # "index" /\ df.index.names = Declared)

\* C8: validate() on a table that validated before and was not changed since
\* returns normally and leaves the table as it was; so does the validate()
\* that starts an iteration of a DataFrameConvertible.
C8_ValidateIdempotent ==
    (last.op \in {"validate", "iter_validate"} /\ last.clean)
        => (last.err = "none" /\ df = last.before)

\* C9: a construction whose validation does not run to its end raises
\* SchemaError, ValueError or TypeError; a table in the caller's hands has
\* been validated.
C9_ConstructionValidates ==
    /\ (last.op = "construct" /\ last.stage # "done")
          => (phase = "raised" /\ last.err \in Reraised)
    /\ phase = "live" => validated >= 1

\* the last operation ran validate() on a record type with index fields and
\* the run came past the index step
PassedIndexStep ==
    /\ last.op \in {"construct", "validate", "iter_validate"}
    /\ Len(IndexFields(cls)) > 0
    /\ last.stage \notin {"schema", "index"}

\* the value row i carries for an index field, as a column or as a level
IndexFieldValue(frame, i, name) ==
    IF name \in frame.columns THEN frame.cells[i][name]
    ELSE RowKey(frame, i)[PositionOf(frame.index.names, name)]
DeclaredKey(frame, i) ==
    [l \in 1..Len(Declared) |-> IndexFieldValue(frame, i, Declared[l])]
DeclaredKeysDistinct(frame) ==
    \A i, j \in 1..NRows(frame) :
        DeclaredKey(frame, i) = DeclaredKey(frame, j) => i = j

\* every other field is a column that holds a null only where it may
OtherFieldsValid(frame) ==
    \A i \in 1..Len(NonIndexFields(cls)) :
        LET f == NonIndexFields(cls)[i]
        IN  /\ f.name \in frame.columns
            /\ \/ process_type_annotation(f.type).nullable
               \/ \A r \in 1..NRows(frame) : ~IsNa(frame.cells[r][f.name])

\* C11: a table in which two rows carry the same index key fails
\* validation; rows with pairwise distinct keys, even when they share the
\* value of one level, validate.
C11_IndexUniqueness ==
    (PassedIndexStep /\ OtherFieldsValid(last.before)) =>
        (DeclaredKeysDistinct(last.before) <=> last.stage = "done")

\* the time zone a field is declared with ("-" when it declares none)
DeclaredZone(f) == PayloadTz(process_type_annotation(f.type).annotated_with)

FieldPresent(frame, name) == name \in frame.columns \/ name \in Range(frame.index.names)

\* the dtype of the column or index level that holds a field
FieldDtype(frame, name) ==
    IF name \in frame.columns THEN frame.dtypes[name]
    ELSE frame.index.dtypes[PositionOf(frame.index.names, name)]

ZonedFields ==
    {f \in Range(cls.fields) :
        find_papaya_type(process_type_annotation(f.type).annotated_type) = "Datetimey"
        /\ DeclaredZone(f) # "-"}

\* the field is held in a time zone other than the declared one
InOtherZone(frame, f) ==
    /\ FieldPresent(frame, f.name)
    /\ FieldDtype(frame, f.name).k = "datetime64"
    /\ FieldDtype(frame, f.name).tz \notin {"-", DeclaredZone(f)}

\* every zoned field is held in one time zone, its own or another
ZonesUniform(frame) ==
    \A f \in ZonedFields :
        FieldPresent(frame, f.name) /\ FieldDtype(frame, f.name).k = "datetime64"

\* every field is where validation looks for it: the other fields are
\* columns, the index fields are the index or are all columns under the
\* default index
FieldsLocated(frame) ==
    /\ \A i \in 1..Len(NonIndexFields(cls)) : NonIndexFields(cls)[i].name \in frame.columns
    /\ \/ frame.index.names = Declared
       \/ /\ frame.index.names = <<NoName>>
          /\ \A l \in 1..Len(Declared) : Declared[l] \in frame.columns

\* the table as the index step of the last validate() left it
AfterIndexStep ==
    LET Indexed(built) ==
            IF Len(IndexFields(cls)) > 0 THEN prevalidate_index(cls, built.st).df
            ELSE built.st.df
    IN  Indexed(get_dataframe_schema(cls, [df |-> last.before, err |-> "none",
                                           warn |-> {}]))

\* the same value, whatever the zone an instant is told in
SameValue(a, b) ==
    \/ IsNa(a) /\ IsNa(b)
    \/ a.ty = b.ty /\ a.v = b.v /\ (a.tz = "-") = (b.tz = "-")

\* C27: the repair of the index levels leaves every row the key it had after
\* the index step, and its values in the other columns, whenever no two rows
\* had the same key.
C27_RowIdentity ==
    (/\ last.op \in {"construct", "validate", "iter_validate"}
     /\ last.stage \in {"repair", "check", "done"}
     /\ Len(IndexFields(cls)) > 0) =>
        LET Kept(before) ==
                (\A i, j \in 1..NRows(before) :
                    RowKey(before, i) = RowKey(before, j) => i = j) =>
                    /\ NRows(df) = NRows(before)
                    /\ NLevels(df) = NLevels(before)
                    /\ df.columns = before.columns
                    /\ \A i \in 1..NRows(before) :
                          /\ \A l \in 1..NLevels(before) :
                                SameValue(RowKey(df, i)[l], RowKey(before, i)[l])
                          /\ \A c \in before.columns :
                                SameValue(df.cells[i][c], before.cells[i][c])
        IN  Kept(AfterIndexStep)

\* C29: a successful assignment through a handle changes the cell at the
\* handle's key and the field only: the rows and their order, the index, the
\* columns, the value of every other cell, the record type with its
\* configuration and the handles are as before.
C29_SetFrame ==
    [][(writes' # writes /\ last'.err = "none") =>
          /\ df'.index = df.index
          /\ df'.columns = df.columns
          /\ NRows(df') = NRows(df)
          /\ \A i \in 1..NRows(df) : \A c \in df.columns :
                (RowKey(df, i) # last'.key \/ c # last'.field) =>
                    \/ PyEq(df'.cells[i][c], df.cells[i][c])
                    \/ IsNa(df'.cells[i][c]) /\ IsNa(df.cells[i][c])
          /\ cls' = cls
          /\ handles' = handles]_vars

\* the fields stored as timestamps, and the zone each is to be stored in
StampedFields ==
    {f \in Range(cls.fields) :
        LET pt == find_papaya_type(process_type_annotation(f.type).annotated_type)
        IN  pt = "Datetimey" \/ (pt = "Date" /\ cls.papaya_config.store_dates_as_timestamps)}

\* a timestamp field held without a zone though declared with one, or held
\* in a zone though declared without
ZoneMismatched(frame, f) ==
    /\ FieldPresent(frame, f.name)
    /\ FieldDtype(frame, f.name).k = "datetime64"
    /\ (FieldDtype(frame, f.name).tz = "-") # (DeclaredZone(f) = "-")

\* C24: when validation succeeds every timestamp column and index level is
\* stored in the zone its field declares (none for a date stored as a
\* timestamp); a field held without a zone though declared with one, or in
\* a zone though declared without, is not converted and validation fails
\* with SchemaError.
C24_ZonePolicy ==
    (last.op \in {"construct", "validate", "iter_validate"} /\ cls.decorated) =>
        \A f \in StampedFields :
            /\ (last.stage = "done" /\ FieldPresent(df, f.name)) =>
                  FieldDtype(df, f.name) = DTtz(DeclaredZone(f))
            /\ (/\ ZoneMismatched(last.before, f)
                /\ FieldPresent(df, f.name)
                /\ last.stage \in {"check", "done"}) =>
                  /\ last.stage = "check"
                  /\ last.err = "SchemaError"
                  /\ FieldDtype(df, f.name) = FieldDtype(last.before, f.name)

\* a table whose dates arrived as timestamps in a zone, its other timestamp
\* columns as declared, was refused with SchemaError, the dates left in
\* their zone
C24_Witness ==
    /\ cls \in ZoneTypes
    /\ cls.papaya_config.store_dates_as_timestamps
    /\ last.op = "construct"
    /\ NRows(last.before) = 2
    /\ last.before.columns = {"made", "noted", "day"}
    /\ df.columns = last.before.columns
    /\ last.before.dtypes["made"] = DTtz("Toronto")
    /\ last.before.dtypes["noted"] = DTtz("-")
    /\ last.before.dtypes["day"] = DTtz("Toronto")
    /\ last.stage = "check"
    /\ last.err = "SchemaError"
    /\ df.dtypes["day"] = DTtz("Toronto")

DerivedSchema == get_dataframe_schema(cls, [df |-> last.before, err |-> "none", warn |-> {}])

\* the number of places a field's name has in the two sections
Placements(schema, name) ==
    Cardinality({j \in 1..Len(schema.index) : schema.index[j].name = name})
    + (IF name \in DOMAIN schema.columns THEN 1 ELSE 0)

\* C14: the schema derived from a record type holds every field exactly
\* once, in the index section when the field is annotated as an index field
\* and in the column section otherwise.
C14_SchemaPartition ==
    (last.op \in {"construct", "validate", "iter_validate"} /\ last.stage # "schema") =>
        LET Partitioned(schema) ==
                /\ \A f \in Range(cls.fields) :
                      /\ Placements(schema, f.name) = 1
                      /\ is_index_annotation(f.type) <=> f.name \notin DOMAIN schema.columns
                /\ DOMAIN schema.columns \subseteq Range(FieldNames(cls.fields))
                /\ \A j \in 1..Len(schema.index) :
                      schema.index[j].name \in Range(FieldNames(cls.fields))
        IN  Partitioned(DerivedSchema)

\* the schema of Foo: two index levels in declared order and one column
C14_Witness ==
    /\ last.op = "construct"
    /\ last.stage = "done"
    /\ cls.fields = FooFields
    /\ NRows(df) = 2
    /\ FieldNames(DerivedSchema.index) = <<"index_field_1", "index_field_2">>
    /\ DOMAIN DerivedSchema.columns = {"non_index_field"}

\* the index fields are neither all columns nor exactly the index levels
MixedState(frame) ==
    ~AllIndexFieldsAreColumns(frame) /\ frame.index.names # Declared

\* C20: under set_index=auto a table in a mixed state, such as one index
\* field a column and another an index level, is rejected at the index step
\* with ValueError and is left without promotion.
C20_AutoRejectsMixed ==
    (RanIndexStep("auto") /\ MixedState(last.before)) =>
        /\ last.stage = "index"
        /\ last.op # "construct" => last.err = "ValueError"
        /\ last.op = "construct" => (last.err = "ValueError" /\ phase = "raised")
        /\ df.index = last.before.index

\* C22: within one validate() run the index step comes first, then every
\* field's repair, then the schema check: a run that stops at the index step
\* has repaired nothing, and a field is repaired where it lives, so a run on
\* a table whose index fields are its index levels does not stop before
\* the index step.
C22_StepOrder ==
    (/\ last.op \in {"construct", "validate", "iter_validate"}
     /\ cls.decorated
     /\ Len(IndexFields(cls)) > 0) =>
        /\ last.stage = "index" => df = last.before
        /\ (/\ last.before.index.names = Declared
            /\ NoIndexFieldIsColumn(last.before)
            /\ \A i \in 1..Len(NonIndexFields(cls)) :
                  NonIndexFields(cls)[i].name \in last.before.columns) =>
              last.stage # "schema"

\* the boolean and integer fields of the record type that are not index
\* fields
CountedFields ==
    {f \in Range(NonIndexFields(cls)) :
        process_type_annotation(f.type).annotated_type.base \in {"bool", "int"}}

\* the storage kind named for a boolean or integer field
StorageKind(f) ==
    LET resolved == process_type_annotation(f.type)
        config == cls.papaya_config
    IN  IF resolved.annotated_type.base = "bool"
        THEN IF ~resolved.nullable THEN "bool"
             ELSE IF config.store_nullable_bools_as_objects THEN "object" ELSE "boolean"
        ELSE IF ~resolved.nullable THEN "int64"
             ELSE IF config.store_nullable_ints_as_floats THEN "float64" ELSE "Int64"

\* C18: after successful validation a boolean or integer column is stored
\* in the kind its nullability and the configuration name, whether the
\* data holds no, some or only nulls: bool, int64, object or boolean,
\* float64 or Int64; a warning is issued exactly when the boolean or the
\* Int64 kind is used; a cell of an Int64 column is read as an integer, or
\* as null when it is missing.
C18_StorageKinds ==
    /\ (last.op \in {"construct", "validate", "iter_validate"} /\ last.stage = "done") =>
          /\ \A f \in CountedFields : df.dtypes[f.name] = DT(StorageKind(f))
          /\ "BooleanDtype" \in warnings <=>
                \E f \in CountedFields : StorageKind(f) = "boolean"
          /\ "Int64Dtype" \in warnings <=>
                \E f \in CountedFields : StorageKind(f) = "Int64"
    /\ (/\ last.op = "get"
        /\ validated > 0 /\ ~mutated
        /\ \E f \in CountedFields : f.name = last.field /\ StorageKind(f) = "Int64") =>
          /\ last.err = "none"
          /\ LET cell == Loc(df, last.key, last.field).val
             IN  last.val = IF IsNa(cell) THEN None ELSE Val("int", cell.v)

\* [1, None] in a nullable integer field is stored as Int64, with a
\* warning, and the missing cell was read as null
C18_Witness ==
    /\ cls.fields = OptionalTallyFields
    /\ ~cls.papaya_config.store_nullable_ints_as_floats
    /\ NRows(df0) = 2
    /\ NRows(df) = 2
    /\ "count" \in df0.columns
    /\ ~IsNa(df0.cells[1]["count"])
    /\ IsNa(df0.cells[2]["count"])
    /\ df.dtypes["count"] = DT("Int64")
    /\ "Int64Dtype" \in warnings
    /\ last.op = "get"
    /\ last.field = "count"
    /\ last.key = RowKey(df, 2)
    /\ last.val = None

-----------------------------------------------------------------------------
(* The codecs at work: one field, one row, a value assigned and read back *)

\* The field types the codecs are exercised with
CodecTypes ==
    {Ty(b) : b \in {"bool", "date", "AnEnum", "int", "Timedelta", "timedelta", "str",
                    "float", "UUID"}}
    \cup {Annotated(Ty(b), <<p>>) : b \in {"Timestamp", "datetime"},
                                    p \in {"DateTime(tz=None)", "DateTime(tz=Toronto)"}}
    \cup {Lit({Val("int", 1), Val("int", 2)}), Lit({Val("int", 1), Val("int", 2), None}),
          Lit({Str(1), Str(2)}), Lit({Str(1), None}), Lit({Member(1)}),
          Lit({Val("int", 1), Str(1), Member(1)})}

CodecAnnotations == {Plain(t) : t \in CodecTypes} \cup {Optional(t) : t \in CodecTypes}

\* every PapayaConfig the codecs read
CodecConfigs ==
    [store_nullable_bools_as_objects : BOOLEAN,
     store_dates_as_timestamps : BOOLEAN,
     store_enum_members_as : {"members", "names", "values"},
     store_nullable_ints_as_floats : BOOLEAN,
     set_index : {"false"}]

\* The values assigned
CodecValues ==
    {Val("bool", 0), Val("bool", 1), Val("int", 1), Val("int", 2), Val("float", 4),
     Str(1), Str(101), Val("date", 3), Val("Timedelta", 4), Val("timedelta", 4),
     Stamp("Timestamp", 3, "-"), Stamp("Timestamp", 3, "Toronto"),
     Stamp("datetime", 3, "-"), Stamp("datetime", 3, "Toronto"),
     Member(1), Member(2), Val("UUID", 9), None}

\* a value of the field's type, among the values the one row is built from
SampleOf(resolved) ==
    LET base == resolved.annotated_type.base
    IN  CASE base = "Literal" -> Val("int", 1)
          [] base = "AnEnum" -> Member(3)
          [] base \in {"Timestamp", "datetime"} ->
                Stamp(base, 1, PayloadTz(resolved.annotated_with))
          [] OTHER -> Val(base, 1)

\* v is a value of the field's type other than null
ValidDomainValue(resolved, v) ==
    LET base == resolved.annotated_type.base
    IN  CASE base = "Literal" -> v \in resolved.annotated_type.lits
          [] base = "AnEnum" -> v \in EnumMembers
          [] base \in {"Timestamp", "datetime"} ->
                v.ty = base /\ v.tz = PayloadTz(resolved.annotated_with)
          [] OTHER -> v.ty = base /\ v.tz = "-"

CodecField == codec.fields[1]
CodecResolved == process_type_annotation(CodecField.type)

CodecInit ==
    /\ fieldTypes = <<>>
    /\ definition = Pending
    /\ TableIdle
    /\ \E t \in CodecAnnotations, config \in CodecConfigs :
          codec = [fields |-> <<Field("x", t)>>, papaya_config |-> config,
                   decorated |-> TRUE, table |-> "ObjectsBackingDataframe"]
    /\ cvalue \in CodecValues
    /\ cstage = "start"
    /\ cenc = Ok(None)
    /\ \E cell \in CodecValues \cup {SampleOf(CodecResolved)} :
          ccell = DataFrameOf({"x"}, <<[x |-> cell]>>)
    /\ cdec = Ok(None)

\* ObjectsBackingDataframe[T] over a table of one row whose x is the cell
CodecConstruct ==
    /\ cstage = "start"
    /\ LET Validated(r) ==
              /\ ccell' = r.df
              /\ cstage' = IF r.err = "none" THEN "validated" ELSE "invalid"
              /\ warnings' = r.warn
       IN  Validated(validate(codec, ccell))
    /\ UNCHANGED <<codec, cvalue, cenc, cdec, annotVars, tableVars, yielded>>

\* handle.x = cvalue, through the handle of the one row
CodecSet ==
    /\ cstage = "validated"
    /\ LET Assigned(r) ==
              /\ cenc' = [err |-> r.err, val |-> None]
              /\ ccell' = r.df
              /\ cstage' = IF r.err = "none" THEN "stored" ELSE "refused"
       IN  Assigned(fset(codec, ccell, RowKey(ccell, 1), "x", cvalue))
    /\ UNCHANGED <<codec, cvalue, cdec, annotVars, tableVars, yielded, warnings>>

\* handle.x, of the row as it was built ("read") or after the assignment
\* ("decoded")
CodecGet ==
    /\ cstage \in {"validated", "stored"}
    /\ cdec' = fget(codec, ccell, RowKey(ccell, 1), "x")
    /\ cstage' = IF cstage = "stored" THEN "decoded" ELSE "read"
    /\ UNCHANGED <<codec, cvalue, cenc, ccell, annotVars, tableVars, yielded,
                   warnings>>

\* table.validate() after the assignment
CodecValidate ==
    /\ cstage = "stored"
    /\ LET Validated(r) ==
              /\ ccell' = r.df
              /\ cstage' = IF r.err = "none" THEN "revalidated" ELSE "rejected"
              /\ warnings' = r.warn
              /\ last' = Outcome("validate", NoKey, "", None, r.err, None, r.stage,
                                 FALSE, ccell)
       IN  Validated(validate(codec, ccell))
    /\ UNCHANGED <<codec, cvalue, cenc, cdec, annotVars, cls, df0, df, phase, validated,
                   mutated, writes, handles, yielded, user_ref>>

CodecNext ==
    \/ CodecConstruct
    \/ CodecSet
    \/ CodecGet
    \/ CodecValidate

SpecCodec == CodecInit /\ [][CodecNext]_vars

\* C3: a value of the field's type that is not null, assigned and read
\* back, comes back equal, for every base type, nullable or not, under
\* every configuration.
C3_RoundTrip ==
    ValidDomainValue(CodecResolved, cvalue) =>
        /\ cstage # "refused"
        /\ cstage = "decoded" => cdec = Ok(cvalue)

IsEnumField == find_papaya_type(CodecResolved.annotated_type) = "Enum"

\* C4: for an enum field under each way of storing members, a member
\* assigned and read back is the member; assigning a value that is neither
\* a member nor null raises ValueError; assigning null to a field that is
\* not nullable raises.
C4_EnumCodec ==
    (IsEnumField /\ cstage \in {"stored", "refused", "decoded"}) =>
        /\ cvalue \in EnumMembers =>
              /\ cstage # "refused"
              /\ cstage = "decoded" => cdec = Ok(cvalue)
        /\ (cvalue \notin EnumMembers /\ cvalue # None) =>
              (cstage = "refused" /\ cenc.err = "ValueError")
        /\ (cvalue = None /\ ~CodecResolved.nullable) =>
              (cstage = "refused" /\ cenc.err # "none")

\* member B, stored as its name, was read back as member B
C4_Witness ==
    /\ IsEnumField
    /\ codec.papaya_config.store_enum_members_as = "names"
    /\ cvalue = Member(2)
    /\ cstage = "decoded"
    /\ Loc(ccell, RowKey(ccell, 1), "x") = Ok(MemberName(Member(2)))
    /\ cdec = Ok(Member(2))

IsLiteralField == find_papaya_type(CodecResolved.annotated_type) = "Literal"

\* value is one of the declared literal values, or null for a nullable field
DeclaredLiteral(value) ==
    \/ PyIn(value, literal_values(CodecResolved.annotated_type))
    \/ CodecResolved.nullable /\ value = None

\* C12: for a literal field, validation accepts the value a row holds, and
\* assignment accepts the value assigned, if and only if the value is one of
\* the declared literal values, or null when the field is nullable.
C12_LiteralAcceptance ==
    [][IsLiteralField =>
          /\ (cstage = "start" /\ cstage' # "start") =>
                (cstage' = "validated" <=> DeclaredLiteral(ccell.cells[1].x))
          /\ (cstage = "validated" /\ cstage' \in {"stored", "refused"}) =>
                (cstage' = "stored" <=> DeclaredLiteral(cvalue))]_vars

\* the codec each base type is to be served by; every other type is served
\* by the general codec
DispatchTable ==
    [bool |-> "Boolean", date |-> "Date", AnEnum |-> "Enum", int |-> "Integer",
     Literal |-> "Literal", Timedelta |-> "Timedelta", timedelta |-> "Timedelta",
     Timestamp |-> "Datetimey", datetime |-> "Datetimey", str |-> "String"]

\* C15: the dispatch from a field's base type to its codec is total and
\* deterministic: boolean, date, enum, integer, literal, duration,
\* timestamp and string types get their own codec, every other type the
\* general one; enum and literal types never fall through to the general
\* codec.
C15_CodecDispatch ==
    cstage # "start" =>
        LET base == CodecResolved.annotated_type.base
        IN  find_papaya_type(CodecResolved.annotated_type) =
                IF base \in DOMAIN DispatchTable THEN DispatchTable[base] ELSE "General"

\* an enum field was served by the enum codec: the member assigned is stored
\* as its value
C15_Witness ==
    /\ CodecResolved.annotated_type.base = "AnEnum"
    /\ codec.papaya_config.store_enum_members_as = "values"
    /\ cvalue = Member(1)
    /\ cstage = "stored"
    /\ Loc(ccell, RowKey(ccell, 1), "x").val # Member(1)

\* value is not a value of the field: not a member of an enum field, none
\* of the literal values of a literal field, of another runtime type than
\* the field's; null is such a value only for a field that is not nullable
InvalidForField(value) ==
    LET base == CodecResolved.annotated_type.base
    IN  CASE base = "AnEnum" ->
                value \notin EnumMembers /\ ~(value = None /\ CodecResolved.nullable)
          [] base = "Literal" -> ~DeclaredLiteral(value)
          [] OTHER -> value.ty # base /\ ~(value = None /\ CodecResolved.nullable)

C19_NullableEnumNull ==
    (IsEnumField /\ CodecResolved.nullable /\ cstage \in {"stored", "refused"}) =>
        /\ cvalue = None =>
              /\ cstage = "stored"
              /\ IsNa(Loc(ccell, RowKey(ccell, 1), "x").val)
        /\ (cvalue \notin EnumMembers /\ cvalue # None) => cstage = "refused"

\* the cell of the one row
TheCell == Loc(ccell, RowKey(ccell, 1), "x").val

\* C23: for a nullable field of any base type, under every configuration,
\* reading through a handle a field whose stored cell is a missing-value
\* marker returns null and does not raise.
C23_MissingDecodesNull ==
    (cstage = "read" /\ CodecResolved.nullable /\ IsNa(TheCell)) => cdec = Ok(None)

\* the literal values of the field are not all of one type
MixedLiteralField ==
    /\ IsLiteralField
    /\ literal_values_type(CodecResolved.annotated_type).base = "object"

\* C25: a table for a literal field whose values are not all of one type is
\* constructed and validated with the column held as objects, and a warning
\* about the fallback to object is emitted.
C25_MixedDegrades ==
    (MixedLiteralField /\ cstage = "validated") =>
        /\ ccell.dtypes["x"] = DT("object")
        /\ "Using object" \in warnings

\* C28: after a successful assignment through a handle of a validated
\* table, validate() succeeds: no codec accepts a value that makes the
\* column violate its type, nullability, time zone or membership.
C28_WritesKeepValid ==
    cstage \in {"revalidated", "rejected"} =>
        /\ cstage = "revalidated"
        /\ last.err = "none"

\* C30: a validate() that raises leaves the table as it was before the call:
\* its index, its columns, their storage kinds and every stored value.
C30_FailedValidateKeeps ==
    cstage = "rejected" =>
        /\ ccell.index = last.before.index
        /\ ccell.columns = last.before.columns
        /\ ccell.dtypes = last.before.dtypes
        /\ ccell.cells = last.before.cells

-----------------------------------------------------------------------------
(* Record type definition, under SpecAnnot *)

AnnotNext == DefineRecordType

AnnotSpecInit ==
    /\ AnnotInit
    /\ codec = RecordType(<<>>, "false", TRUE, "ObjectsBackingDataframe")
    /\ cvalue = None
    /\ cstage = "start"
    /\ cenc = Ok(None)
    /\ ccell = DataFrameOf({}, <<>>)
    /\ cdec = Ok(None)
    /\ TableIdle

SpecAnnot == AnnotSpecInit /\ [][AnnotNext]_vars

\* the types of a field's annotation other than NoneType
NonNullTypes(t) == SelectSeq(t.args, LAMBDA a : a.base # "NoneType")

UnionOfSeveral(t) == t.union /\ Len(NonNullTypes(t)) > 1
UnionOfOneAndNull(t) ==
    t.union /\ Len(NonNullTypes(t)) = 1 /\ Len(t.args) > Len(NonNullTypes(t))
TimestampWithoutPolicy(t) ==
    /\ Len(NonNullTypes(t)) = 1
    /\ NonNullTypes(t)[1].base \in {"Timestamp", "datetime"}
    /\ Range(NonNullTypes(t)[1].meta) \cap DateTimePayloads = {}

\* C10: defining a record type raises TypeError when a field is a Timestamp
\* or datetime without a DateTime annotation or a union of several types
\* that are not null; a union of one type and null is accepted and resolves
\* to nullable.
C10_DefinitionRejectsMalformed ==
    definition.state # "pending" =>
        /\ (\E i \in 1..Len(fieldTypes) :
               UnionOfSeveral(fieldTypes[i]) \/ TimestampWithoutPolicy(fieldTypes[i]))
              => (definition.state = "raised" /\ definition.err = "TypeError")
        /\ (\A i \in 1..Len(fieldTypes) :
               ~UnionOfSeveral(fieldTypes[i]) /\ ~TimestampWithoutPolicy(fieldTypes[i]))
              => definition.state = "defined"
        /\ definition.state = "defined" =>
              \A i \in 1..Len(fieldTypes) :
                 UnionOfOneAndNull(fieldTypes[i]) => definition.resolved[i].nullable

\* the literal type a field's annotation names, a union with null unwrapped
IsLiteralAnnotation(t) ==
    /\ Len(NonNullTypes(t)) = 1
    /\ NonNullTypes(t)[1].base = "Literal"
    /\ NonNullTypes(t)[1].meta = <<>>

\* C21: a literal type resolves to nullable when the union it was unwrapped
\* from held null or when None is one of its literal values, and to the
\* literal type of its other values.
C21_LiteralNullable ==
    definition.state = "defined" =>
        \A i \in 1..Len(fieldTypes) :
            IsLiteralAnnotation(fieldTypes[i]) =>
                /\ definition.resolved[i].nullable <=>
                      \/ UnionOfOneAndNull(fieldTypes[i])
                      \/ None \in NonNullTypes(fieldTypes[i])[1].lits
                /\ definition.resolved[i].annotated_type =
                      Lit(NonNullTypes(fieldTypes[i])[1].lits \ {None})

====
